---------------------------- MODULE Spec2Model ----------------------------
(***************************************************************************)
(* State-machine model of the ephys-to-NWB writer                          *)
(* (nwb_conversion_tools/utils/si013nwbephyswriter.py and                  *)
(* basenwbephyswriter.py).  The target container (pynwb.NWBFile) is the    *)
(* state; every writer method is one action that applies the whole method, *)
(* including the calls it makes, and records whether it raised.            *)
(***************************************************************************)
EXTENDS Integers, Sequences, FiniteSets, TLC

VARIABLES
    nwbfile,     \* the target container (self.nwbfile)
    recording,   \* the RecordingExtractor handed to the writer
    sorting,     \* the SortingExtractor handed to the writer
    kwargs,      \* self._kwargs, the keyword arguments of the writer
    metadata,    \* self.metadata
    nwb_file_path, \* self.nwb_file_path: None or the target path
    storage,     \* the file system at the target path and the handle on it
    last,        \* what the last call was, the container before it, how it ended
    calls        \* number of writer calls made so far

vars == <<nwbfile, recording, sorting, kwargs, metadata, nwb_file_path, storage, last, calls>>

(***************************************************************************)
(* Bounds of the model.                                                    *)
(***************************************************************************)
MaxCalls == 2

(***************************************************************************)
(* Python values.  A value is a record: ty is the Python type the code     *)
(* dispatches on with isinstance ("list", "array", "str", "real", "dict",  *)
(* "group" for an ElectrodeGroup object), v its printed content, shape the *)
(* numpy shape of a list or array.                                         *)
(***************************************************************************)
Val(t, v, s) == [ty |-> t, v |-> v, shape |-> s]

Real(v) == Val("real", v, <<>>)

Text(v) == Val("str", v, <<>>)

List(v, n) == Val("list", v, <<n>>)

Array(v, s) == Val("array", v, s)

Dict(v) == Val("dict", v, <<>>)

np_nan == Real("nan")

\* dict a.update(b): the keys of b win
Update(a, b) == b @@ a

Range(s) == {s[i] : i \in DOMAIN s}

\* x in list
InSeq(x, s) == \E i \in DOMAIN s : s[i] = x

\* str(int) for the small integers used as group ids
StrInt(n) == CASE n = 0 -> "0" [] n = 1 -> "1" [] n = 2 -> "2" [] n = 3 -> "3" [] OTHER -> "n"

\* str(value)
PyStr(val) == val.v

\* an outcome of a step: the container it leaves and the exception raised
Ret(nwb, exc) == [nwb |-> nwb, raised |-> exc]

\* an outcome of a method: the container and self.metadata it leaves, and
\* the exception raised
Out(nwb, md, exc) == [nwb |-> nwb, metadata |-> md, raised |-> exc]

(***************************************************************************)
(* self.metadata: None, or a dict that may hold 'Ecephys', which may hold  *)
(* 'Device' (a list of device names, "" for an entry without 'name'),      *)
(* 'ElectrodeGroup' (a list of group names), 'Electrodes' (a list of       *)
(* column names) and the entries of the series keys (es_key -> name of the *)
(* series).                                                                *)
(***************************************************************************)
Absent == [present |-> FALSE, names |-> <<>>]

Listed(names) == [present |-> TRUE, names |-> names]

MetadataNone ==
    [none |-> TRUE, Ecephys |-> FALSE, Device |-> Absent, ElectrodeGroup |-> Absent,
     Electrodes |-> Absent, series |-> <<>>]

MetadataEmpty == [MetadataNone EXCEPT !.none = FALSE]

MetadataEcephys == [MetadataEmpty EXCEPT !.Ecephys = TRUE]

(***************************************************************************)
(* The container substrate (pynwb / hdmf DynamicTable), as the writer uses *)
(* it.  A table is absent (None) or holds row ids and, per column name,    *)
(* the list of the column's values.                                        *)
(***************************************************************************)
NoTable == [present |-> FALSE, ids |-> <<>>, cols |-> <<>>]

\* pynwb.NWBFile(...) as instantiate_nwbfile makes it
EmptyNwb ==
    [none |-> FALSE, devices |-> {}, electrode_groups |-> {}, electrodes |-> NoTable,
     acquisition |-> <<>>, processing |-> <<>>, units |-> NoTable, epochs |-> <<>>]

\* self.nwbfile of a writer constructed with a target path only
NoneNwb == [EmptyNwb EXCEPT !.none = TRUE]

\* columns pynwb's ElectrodeTable is created with
ElectrodeStdCols == {"x", "y", "z", "imp", "location", "filtering", "group", "group_name"}

NewElectrodeTable == [present |-> TRUE, ids |-> <<>>, cols |-> [c \in ElectrodeStdCols |-> <<>>]]

\* NWBFile.__check_electrodes: the table is created on first use
CheckElectrodes(tbl) == IF tbl.present THEN tbl ELSE NewElectrodeTable

\* DynamicTable.add_column: the name must be new and the data as long as the table
AddColumnOk(tbl, name, data) == name \notin DOMAIN tbl.cols /\ Len(data) = Len(tbl.ids)

AddColumn(tbl, name, data) == [tbl EXCEPT !.cols = (name :> data) @@ tbl.cols]

\* DynamicTable.add_row: the row's keys must be exactly the table's columns
AddRowOk(tbl, row) == DOMAIN row = DOMAIN tbl.cols

AddRow(tbl, id, row) ==
    [tbl EXCEPT !.ids = Append(tbl.ids, id),
                !.cols = [c \in DOMAIN tbl.cols |-> Append(tbl.cols[c], row[c])]]


(***************************************************************************)
(* add_electrode_groups.  SI013NwbEphysWriter derives from                 *)
(* BaseNwbEphysWriter and does not override the method, so the call runs   *)
(* the base method, which raises NotImplementedError; called with the      *)
(* keyword missing_group_metadata the call itself is a TypeError.          *)
(***************************************************************************)
add_electrode_groups(nwb) == Ret(nwb, "NotImplementedError")

add_electrode_groups_missing(nwb, group_name) == Ret(nwb, "TypeError")

(***************************************************************************)
(* add_electrodes: the property reconciler.                                *)
(***************************************************************************)
\* the keys of channel_property_defaults, in the order isinstance is tried
PropertyTypes == <<"list", "array", "str", "real">>

channel_property_defaults(t) ==
    CASE t = "list" -> List("", 0)
      [] t = "array" -> Array("nan", <<>>)
      [] t = "str" -> Text("")
      [] OTHER -> np_nan

IsInstance(val, t) == val.ty = t

\* [proptype for proptype in channel_property_defaults if isinstance(v, proptype)]
MatchingTypes(val) == SelectSeq(PropertyTypes, LAMBDA t : IsInstance(val, t))

\* np.float(chan_data): the value as a float
NpFloat(val) == Real(val.v)

\* the defaults of the columns pynwb requires
ElectrodeDefaults ==
    [x |-> np_nan, y |-> np_nan, z |-> np_nan, imp |-> Real("-1.0"),
     location |-> Text("unknown"), filtering |-> Text("none"), group_name |-> Text("0")]

property_names(rec) == UNION {DOMAIN rec.props[ch] : ch \in Range(rec.channel_ids)}

exclude_names(kw) == {"location", "group"} \cup kw.exclude_properties

\* the loop over the channels that builds one property's data (lines 327-349)
RECURSIVE BuildData(_, _, _, _)
BuildData(rec, prop, i, acc) ==
    IF i > Len(rec.channel_ids) \/ acc.skip THEN acc
    ELSE LET ch == rec.channel_ids[i] IN
         IF prop \in DOMAIN rec.props[ch]
         THEN LET chan_data == rec.props[ch][prop] IN
              IF acc.count = 0
              THEN LET proptype == MatchingTypes(chan_data) IN
                   IF Len(proptype) > 0
                   THEN LET t == proptype[1]
                            cast == IF t = "real" THEN NpFloat(chan_data) ELSE chan_data
                            prior == IF Len(acc.data) > 0 /\ ~IsInstance(acc.data[Len(acc.data)], t)
                                     THEN [k \in 1..Len(acc.data) |-> channel_property_defaults(t)]
                                     ELSE acc.data
                        IN BuildData(rec, prop, i + 1,
                                     [data |-> Append(prior, cast), count |-> 1, type |-> t, skip |-> FALSE])
                   ELSE [acc EXCEPT !.skip = TRUE]
              ELSE BuildData(rec, prop, i + 1,
                             [acc EXCEPT !.data = Append(@, chan_data), !.count = @ + 1])
         ELSE BuildData(rec, prop, i + 1,
                        [acc EXCEPT !.data = Append(@, channel_property_defaults(acc.type))])

PropertyColumn(rec, prop) ==
    BuildData(rec, prop, 1, [data |-> <<>>, count |-> 0, type |-> "real", skip |-> FALSE])

\* property 'brain_area' of the channels is 'location' of the electrodes
prop_name_new(prop) == IF prop = "brain_area" THEN "location" ELSE prop

prop_name_old(name) == IF name = "location" THEN "brain_area" ELSE name

RECURSIVE Dedupe(_)
Dedupe(s) ==
    IF s = <<>> THEN <<>>
    ELSE LET rest == Dedupe(SelectSeq(Tail(s), LAMBDA x : x # Head(s))) IN <<Head(s)>> \o rest

\* elec_columns after lines 321-360: order is the dict's key order, data the
\* keys that hold "data" and "index"; order_in is the iteration order of the
\* set property_names
ElecColumns(rec, md, kw, order_in) ==
    LET written == SelectSeq(order_in, LAMBDA p : p \notin exclude_names(kw) /\ ~PropertyColumn(rec, p).skip)
        names == [i \in DOMAIN written |-> prop_name_new(written[i])]
        meta == md.Electrodes.names
        extra == Dedupe(SelectSeq(meta, LAMBDA m : ~InSeq(m, names)))
        keys == names \o extra
    IN [order |-> keys,
        data |-> [n \in Range(names) |-> PropertyColumn(rec, prop_name_old(n)).data],
        types |-> [n \in (property_names(rec) \ Range(written)) \cup Range(names)
                     |-> IF n \in Range(names) THEN PropertyColumn(rec, prop_name_old(n)).type
                         ELSE "real"],
        \* line 359, evaluated after line 358 has put the name into the dict
        raises |-> \E i \in DOMAIN meta : ~InSeq(meta[i], keys)]

\* default_updated (lines 363-372); ok is FALSE when data[0] or [...][0] fails
DefaultUpdated(tbl) ==
    IF ~tbl.present THEN [ok |-> TRUE, d |-> ElectrodeDefaults]
    ELSE LET cn == DOMAIN tbl.cols \ {"group"} IN
         IF cn # {} /\ (Len(tbl.ids) = 0 \/ \E c \in cn : Len(MatchingTypes(tbl.cols[c][1])) = 0)
         THEN [ok |-> FALSE, d |-> ElectrodeDefaults]
         ELSE [ok |-> TRUE,
               d |-> Update([c \in cn |-> channel_property_defaults(MatchingTypes(tbl.cols[c][1])[1])],
                            ElectrodeDefaults)]

(***************************************************************************)
(* add_electrodes: the table writer.                                       *)
(***************************************************************************)
\* the guard taken only when every channel id is already a row id
IdsAllExist(tbl, rec) ==
    tbl.present /\ \A i \in DOMAIN rec.channel_ids : InSeq(rec.channel_ids[i], tbl.ids)

\* lines 253-257: some channel id of the extractor is already a row id
IdsAlreadyExist(tbl, rec) ==
    tbl.present /\ ~(\A i \in DOMAIN rec.channel_ids : ~InSeq(rec.channel_ids[i], tbl.ids))

\* the rows of the table padded with NaN whatever the type of the column
combine_data_of_reals(tbl, t) == [k \in 1..Len(tbl.ids) |-> np_nan]

\* lines 382-385: the default of the column's type for every row of the table
combine_data(tbl, t) == [k \in 1..Len(tbl.ids) |-> channel_property_defaults(t)]

\* lines 374-387: a new column is added at once while the table is None and
\* staged in elec_columns_append once the table exists
RECURSIVE StageColumns(_, _, _, _)
StageColumns(ec, du, i, st) ==
    IF i > Len(ec.order) \/ st.raised # "none" THEN st
    ELSE LET name == ec.order[i] IN
         IF name \in DOMAIN du THEN StageColumns(ec, du, i + 1, st)
         ELSE IF ~st.tbl.present
         THEN IF name \notin DOMAIN ec.data
              THEN [st EXCEPT !.raised = "KeyError"]
              ELSE LET t == CheckElectrodes(st.tbl) IN
                   IF AddColumnOk(t, name, <<>>)
                   THEN StageColumns(ec, du, i + 1, [st EXCEPT !.tbl = AddColumn(t, name, <<>>)])
                   ELSE [st EXCEPT !.tbl = t, !.raised = "ValueError"]
         ELSE IF name \notin DOMAIN ec.types \/ name \notin DOMAIN ec.data
         THEN [st EXCEPT !.raised = "KeyError"]
         ELSE StageColumns(ec, du, i + 1,
                           [st EXCEPT !.append =
                               Append(@, [name |-> name,
                                          data |-> combine_data(st.tbl, ec.types[name]) \o ec.data[name]])])

\* the position of the channel taken for its id
RowIdByPosition(channel_id, j) == j

\* the id a new row is given (line 395)
RowId(channel_id, j) == channel_id

\* NWBFile.add_electrode: rel_x and rel_y become columns when first given
RECURSIVE AddOptionalColumns(_, _, _)
AddOptionalColumns(tbl, names, row) ==
    IF names = <<>> THEN [tbl |-> tbl, ok |-> TRUE]
    ELSE LET n == Head(names) IN
         IF n \in DOMAIN row /\ n \notin DOMAIN tbl.cols
         THEN IF AddColumnOk(tbl, n, <<>>)
              THEN AddOptionalColumns(AddColumn(tbl, n, <<>>), Tail(names), row)
              ELSE [tbl |-> tbl, ok |-> FALSE]
         ELSE AddOptionalColumns(tbl, Tail(names), row)

add_electrode(tbl, id, row) ==
    LET t0 == CheckElectrodes(tbl)
        opt == AddOptionalColumns(t0, <<"rel_x", "rel_y">>, row)
    IN IF ~opt.ok THEN [tbl |-> opt.tbl, raised |-> "ValueError"]
       ELSE IF ~AddRowOk(opt.tbl, row) THEN [tbl |-> opt.tbl, raised |-> "ValueError"]
       ELSE [tbl |-> AddRow(opt.tbl, id, row), raised |-> "none"]

\* lines 394-431: the keyword arguments of one row, or the exception raised
\* while they are put together; keys are the names left in elec_columns
ElectrodeKwargs(nwb, rec, ec, du, keys, j) ==
    LET channel_id == rec.channel_ids[j]
        located == IF rec.located
                   THEN Update(du, [rel_x |-> Real("loc"), rel_y |-> Real("loc")])
                   ELSE du
        withdata == {n \in Range(keys) : n \in DOMAIN ec.data /\ n # "group_name"}
        filled == Update(located, [n \in withdata |-> ec.data[n][j]])
        group_id == StrInt(rec.groups[channel_id])
    IN IF InSeq("group_name", keys)
       THEN IF "group_name" \notin DOMAIN ec.data THEN [raised |-> "KeyError", row |-> filled]
            ELSE LET group_name == PyStr(ec.data["group_name"][j]) IN
                 IF group_name # "" /\ group_name \notin nwb.electrode_groups
                 THEN [raised |-> add_electrode_groups_missing(nwb, group_name).raised, row |-> filled]
                 ELSE IF group_name \notin nwb.electrode_groups
                 THEN [raised |-> "KeyError", row |-> filled]
                 ELSE [raised |-> "none",
                       row |-> Update(filled, [group |-> Val("group", group_name, <<>>),
                                               group_name |-> Text(group_name)])]
       ELSE IF group_id \notin nwb.electrode_groups
       THEN [raised |-> "KeyError", row |-> filled]
       ELSE [raised |-> "none",
             row |-> Update(filled, [group |-> Val("group", group_id, <<>>),
                                     group_name |-> Text(group_id)])]

\* lines 392-433: one row per channel that is not yet in the table
RECURSIVE AddRows(_, _, _, _, _, _, _)
AddRows(nwb, rec, ec, du, keys, nwb_elec_ids, j) ==
    IF j > Len(rec.channel_ids) THEN Ret(nwb, "none")
    ELSE IF InSeq(rec.channel_ids[j], nwb_elec_ids)
    THEN AddRows(nwb, rec, ec, du, keys, nwb_elec_ids, j + 1)
    ELSE LET kw == ElectrodeKwargs(nwb, rec, ec, du, keys, j) IN
         IF kw.raised # "none" THEN Ret(nwb, kw.raised)
         ELSE LET r == add_electrode(nwb.electrodes, RowId(rec.channel_ids[j], j), kw.row) IN
              IF r.raised # "none" THEN Ret([nwb EXCEPT !.electrodes = r.tbl], r.raised)
              ELSE AddRows([nwb EXCEPT !.electrodes = r.tbl], rec, ec, du, keys, nwb_elec_ids, j + 1)

\* lines 435-436: the staged columns are added after the rows
RECURSIVE AddStagedColumns(_, _)
AddStagedColumns(nwb, append) ==
    IF append = <<>> THEN Ret(nwb, "none")
    ELSE LET c == Head(append)
             t == CheckElectrodes(nwb.electrodes)
         IN IF AddColumnOk(t, c.name, c.data)
            THEN AddStagedColumns([nwb EXCEPT !.electrodes = AddColumn(t, c.name, c.data)], Tail(append))
            ELSE Ret([nwb EXCEPT !.electrodes = t], "ValueError")

\* lines 281-288: self.metadata is given 'Ecephys' and 'Electrodes'
MetadataForElectrodes(md) ==
    IF md.none THEN [MetadataEcephys EXCEPT !.Electrodes = Listed(<<>>)]
    ELSE IF ~md.Ecephys THEN [md EXCEPT !.Ecephys = TRUE, !.Electrodes = Listed(<<>>)]
    ELSE IF ~md.Electrodes.present THEN [md EXCEPT !.Electrodes = Listed(<<>>)]
    ELSE md

\* line 437: the table must exist once the columns are added
CheckWritten(cols) ==
    IF cols.raised # "none" THEN cols
    ELSE IF ~cols.nwb.electrodes.present THEN Ret(cols.nwb, "AssertionError")
    ELSE cols

\* lines 434-437 after the rows (rows is the outcome of adding them)
WriteColumns(rows, st) ==
    IF rows.raised # "none" THEN rows ELSE CheckWritten(AddStagedColumns(rows.nwb, st.append))

\* the names left in elec_columns once the staged ones are popped (line 386)
KeysLeft(ec, st) ==
    SelectSeq(ec.order, LAMBDA n : n \notin {st.append[k].name : k \in DOMAIN st.append})

\* lines 389-437 after the new columns (st is the outcome of staging them)
WriteRows(nwb, rec, ec, du, st) ==
    IF st.raised # "none" THEN Ret([nwb EXCEPT !.electrodes = st.tbl], st.raised)
    ELSE WriteColumns(AddRows([nwb EXCEPT !.electrodes = st.tbl], rec, ec, du.d, KeysLeft(ec, st),
                              nwb.electrodes.ids, 1),
                      st)

\* lines 359-437 once elec_columns (ec) and default_updated (du) are built
WriteStaged(nwb, rec, ec, du) ==
    IF ec.raises THEN Ret(nwb, "ValueError")
    ELSE IF ~du.ok THEN Ret(nwb, "IndexError")
    ELSE WriteRows(nwb, rec, ec, du,
                   StageColumns(ec, du.d, 1, [tbl |-> nwb.electrodes, append |-> <<>>, raised |-> "none"]))

\* the table writer once the guard and the groups are passed
WriteElectrodes(nwb, rec, md, kw, order_in) ==
    IF InSeq("group", md.Electrodes.names) THEN Ret(nwb, "AssertionError")
    ELSE WriteStaged(nwb, rec, ElecColumns(rec, md, kw, order_in), DefaultUpdated(nwb.electrodes))

\* the outcome of a step as the outcome of the method, self.metadata being md
WithMetadata(r, md) == Out(r.nwb, md, r.raised)

add_electrodes(nwb, rec, md, kw, order_in) ==
    IF nwb.none THEN Out(nwb, md, "AttributeError")
    ELSE IF IdsAlreadyExist(nwb.electrodes, rec) THEN Out(nwb, md, "none")
    ELSE IF nwb.electrode_groups = {} THEN Out(nwb, md, add_electrode_groups(nwb).raised)
    ELSE WithMetadata(WriteElectrodes(nwb, rec, MetadataForElectrodes(md), kw, order_in),
                      MetadataForElectrodes(md))

(***************************************************************************)
(* add_electrical_series.  Gains, offsets and conversions are rationals    *)
(* n/d (d > 0), in microvolts; samples are integers of the source's dtype. *)
(***************************************************************************)
Q(n, d) == [n |-> n, d |-> d]

QEq(a, b) == a.n * b.d = b.n * a.d

QMul(a, b) == Q(a.n * b.n, a.d * b.d)

QAdd(a, b) == Q(a.n * b.d + b.n * a.d, a.d * b.d)

Abs(x) == IF x < 0 THEN 0 - x ELSE x

RECURSIVE Pow2(_)
Pow2(w) == IF w = 0 THEN 1 ELSE 2 * Pow2(w - 1)

\* channel_offset / channel_conversion of one channel is a float for which
\* is_integer() holds (a division by zero gives inf or nan, which are not)
CoercionIsInteger(offset, gain) ==
    gain.n # 0 /\ (Abs(offset.n) * gain.d) % (offset.d * Abs(gain.n)) = 0

\* the quotient, when it is an integer
Coercion(offset, gain) ==
    LET q == (Abs(offset.n) * gain.d) \div (offset.d * Abs(gain.n))
    IN IF (offset.n < 0) # (gain.n < 0) THEN 0 - q ELSE q

\* an optional keyword argument: None or a value
None == [given |-> FALSE, v |-> ""]

Some(v) == [given |-> TRUE, v |-> v]

NoneInt == [given |-> FALSE, v |-> 0]

\* None or a list of names, kept as the set of its elements
NoneList == [given |-> FALSE, v |-> {}]

SomeList(names) == [given |-> TRUE, v |-> names]

\* lines 545-578: the default name of the series per write_as
DefaultSeriesName(write_as) ==
    CASE write_as = "raw" -> "ElectricalSeries_raw"
      [] write_as = "processed" -> "ElectricalSeries_processed"
      [] OTHER -> "ElectricalSeries_lfp"

InterfaceOf(write_as) == IF write_as = "processed" THEN "Processed" ELSE "LFP"

\* check_module and the data interface of lines 557-578
WithInterface(nwb, iface) ==
    LET mods == IF "ecephys" \in DOMAIN nwb.processing THEN nwb.processing
                ELSE ("ecephys" :> <<>>) @@ nwb.processing
        ecephys_mod == mods["ecephys"]
        ifaces == IF iface \in DOMAIN ecephys_mod THEN ecephys_mod ELSE (iface :> <<>>) @@ ecephys_mod
    IN [nwb EXCEPT !.processing = ("ecephys" :> ifaces) @@ mods]

\* the series of the acquisition whatever write_as is
SeriesInAcquisition(nwb, write_as) == nwb.acquisition

\* the series already written in the location of write_as
SeriesIn(nwb, write_as) ==
    IF write_as = "raw" THEN nwb.acquisition
    ELSE nwb.processing["ecephys"][InterfaceOf(write_as)]

\* lines 692-699: the series is added to the location of write_as
AddSeries(nwb, write_as, es) ==
    IF write_as = "raw" THEN [nwb EXCEPT !.acquisition = (es.name :> es) @@ nwb.acquisition]
    ELSE [nwb EXCEPT !.processing["ecephys"][InterfaceOf(write_as)] =
                        (es.name :> es) @@ nwb.processing["ecephys"][InterfaceOf(write_as)]]

\* list(self.nwbfile.electrodes.id[:]).index(id), counted from 1
IndexOf(s, x) == CHOOSE i \in DOMAIN s : s[i] = x /\ \A k \in 1..(i - 1) : s[k] # x

\* lines 626-633: the conversion factor, and the per-channel gains if they differ
SeriesConversion(rec, write_scaled) ==
    LET channel_conversion == [i \in DOMAIN rec.channel_ids |-> rec.gains[rec.channel_ids[i]]]
    IN IF write_scaled THEN [conversion |-> Q(1, 1), channel_conversion |-> <<>>]
       ELSE IF \A i \in DOMAIN channel_conversion : QEq(channel_conversion[i], channel_conversion[1])
       THEN [conversion |-> channel_conversion[1], channel_conversion |-> <<>>]
       ELSE [conversion |-> Q(1, 1), channel_conversion |-> channel_conversion]

\* recording.get_traces(return_scaled=...) for one sample
GetTrace(rec, ch, f, return_scaled) ==
    IF return_scaled THEN QAdd(QMul(Q(rec.traces[ch][f], 1), rec.gains[ch]), rec.offsets[ch])
    ELSE Q(rec.traces[ch][f], 1)

\* an integer as the signed two's complement number of w bits
WrapSigned(x, w) ==
    LET m == x % Pow2(w) IN IF m >= Pow2(w - 1) THEN m - Pow2(w) ELSE m

\* astype(signed w-bit) of a float: the value when it fits, else what the
\* platform's conversion makes of it (ub: it wraps, or saturates)
FloatAsSigned(x, w, ub) ==
    IF x >= 0 - Pow2(w - 1) /\ x < Pow2(w - 1) THEN x
    ELSE IF ub = "wrap" THEN WrapSigned(x, w)
    ELSE IF x < 0 THEN 0 - Pow2(w - 1) ELSE Pow2(w - 1) - 1

\* astype of an integer sum to the signed type of the dtype's width ("uint8"
\* is cast to "int8", "int8" stays)
IntAsType(x, dtype) ==
    WrapSigned(x, dtype.bits)

\* lines 653-662: one sample as data_generator yields it
GeneratedSample(rec, i, f, coercion_int, write_scaled, ub) ==
    LET ch == rec.channel_ids[i] IN
    IF write_scaled THEN GetTrace(rec, ch, f, TRUE)
    ELSE IF coercion_int
    THEN Q(IntAsType(rec.traces[ch][f] + Coercion(rec.offsets[ch], rec.gains[ch]), rec.dtype), 1)
    ELSE Q(FloatAsSigned(rec.traces[ch][f], rec.dtype.bits, ub), 1)

\* lines 635-675: the data of the series, time as the first axis
SeriesData(rec, kw, low_memory, ub) ==
    LET iterate == kw.iterate \/ low_memory
        offsets_zero == \A i \in DOMAIN rec.channel_ids : rec.offsets[rec.channel_ids[i]].n = 0
        coercion_int == \E i \in DOMAIN rec.channel_ids :
                            Coercion(rec.offsets[rec.channel_ids[i]], rec.gains[rec.channel_ids[i]]) # 0
        frames == 1..rec.num_frames
    IN IF iterate /\ rec.memmap /\ offsets_zero
       THEN [mode |-> "memmap",
             data |-> [f \in frames |-> [i \in DOMAIN rec.channel_ids |->
                          GetTrace(rec, rec.channel_ids[i], f, kw.write_scaled)]]]
       ELSE IF iterate
       THEN [mode |-> "generator",
             data |-> [f \in frames |-> [i \in DOMAIN rec.channel_ids |->
                          GeneratedSample(rec, i, f, coercion_int, kw.write_scaled, ub)]]]
       ELSE [mode |-> "array",
             data |-> [f \in frames |-> [i \in DOMAIN rec.channel_ids |->
                          GetTrace(rec, rec.channel_ids[i], f, kw.write_scaled)]]]

\* np.dtype(...).itemsize, in bytes
itemsize(dtype) == dtype.bits \div 8

\* line 641: the number of frames of one step on the memory-mapped path
BufferSize(rec, kw) == (kw.buffer_mb * 1000000) \div (Len(rec.channel_ids) * itemsize(rec.dtype))

\* lines 635-675: the way the data is handed over and the number of samples
\* of one iteration step. DataChunkIterator takes buffer_size rows of a
\* memory-mapped array per step; from data_generator, which yields the whole
\* trace of one channel, it takes one yielded item per step.
DataChunks(rec, kw, low_memory) ==
    IF (kw.iterate \/ low_memory) /\ rec.memmap
           /\ \A i \in DOMAIN rec.channel_ids : rec.offsets[rec.channel_ids[i]].n = 0
    THEN [mode |-> "memmap",
          step |-> (IF BufferSize(rec, kw) < rec.num_frames THEN BufferSize(rec, kw) ELSE rec.num_frames)
                       * Len(rec.channel_ids)]
    ELSE IF kw.iterate \/ low_memory
    THEN [mode |-> "generator", step |-> rec.num_frames]
    ELSE [mode |-> "array", step |-> rec.num_frames * Len(rec.channel_ids)]

\* compression_opts handed on as the caller passed it
CompressionOptsAsPassed(kw) == kw.compression_opts

\* lines 534-543: compression_opts as it is handed to H5DataIO
CompressionOpts(kw) ==
    IF kw.compression = Some("gzip") /\ ~kw.compression_opts.given THEN [given |-> TRUE, v |-> 4]
    ELSE IF kw.compression = Some("lzf") THEN NoneInt
    ELSE kw.compression_opts

\* lines 693: pynwb.ecephys.ElectricalSeries(**eseries_kwargs)
ElectricalSeries(name, electrodes, conv, d, kw) ==
    [name |-> name,
     electrodes |-> electrodes,
     conversion |-> conv.conversion,
     channel_conversion |-> conv.channel_conversion,
     data |-> d.data,
     mode |-> d.mode,
     compression |-> kw.compression,
     compression_opts |-> CompressionOpts(kw)]

\* lines 601-699: from the electrode table region to the series added
WriteSeries(nwb, rec, md, kw, name, low_memory, ub) ==
    IF \E i \in DOMAIN rec.channel_ids : ~InSeq(rec.channel_ids[i], nwb.electrodes.ids)
    THEN Out(nwb, md, "ValueError")
    ELSE IF ~(\A i \in DOMAIN rec.channel_ids :
                CoercionIsInteger(rec.offsets[rec.channel_ids[i]], rec.gains[rec.channel_ids[i]]))
    THEN Out(nwb, md, "NotImplementedError")
    ELSE Out(AddSeries(nwb, kw.write_as,
                       ElectricalSeries(name,
                                        [i \in DOMAIN rec.channel_ids |->
                                            IndexOf(nwb.electrodes.ids, rec.channel_ids[i]) - 1],
                                        SeriesConversion(rec, kw.write_scaled),
                                        SeriesData(rec, kw, low_memory, ub),
                                        kw)),
             md, "none")

\* lines 580-583: the name of the series, "" when es_key fails the assertion
SeriesName(md, kw) ==
    IF ~md.none /\ md.Ecephys /\ kw.es_key.given
    THEN IF kw.es_key.v \in DOMAIN md.series THEN md.series[kw.es_key.v] ELSE ""
    ELSE DefaultSeriesName(kw.write_as)

\* lines 580-699 once the location of the series exists
NameSeries(nwb, rec, md, kw, name, low_memory, ub) ==
    IF name = "" THEN Out(nwb, md, "AssertionError")
    ELSE IF name \in DOMAIN SeriesIn(nwb, kw.write_as) THEN Out(nwb, md, "AssertionError")
    ELSE WriteSeries(nwb, rec, md, kw, name, low_memory, ub)

\* lines 528-599: write_as, compression, location, name and duplicate checks
PlaceSeries(nwb, rec, md, kw, low_memory, ub) ==
    IF kw.write_as \notin {"raw", "processed", "lfp"} THEN Out(nwb, md, "AssertionError")
    ELSE IF kw.compression = Some("gzip") /\ kw.compression_opts.given
            /\ kw.compression_opts.v \notin 0..9
    THEN Out(nwb, md, "AssertionError")
    ELSE NameSeries(IF kw.write_as = "raw" THEN nwb ELSE WithInterface(nwb, InterfaceOf(kw.write_as)),
                    rec, md, kw, SeriesName(md, kw), low_memory, ub)

\* lines 528-699 after add_electrodes (e is its outcome)
AfterElectrodes(e, rec, kw, low_memory, ub) ==
    IF e.raised # "none" THEN e ELSE PlaceSeries(e.nwb, rec, e.metadata, kw, low_memory, ub)

add_electrical_series(nwb, rec, md, kw, order_in, low_memory, ub) ==
    IF ~(kw.buffer_mb > 10) THEN Out(nwb, md, "AssertionError")
    ELSE IF kw.compression.given /\ kw.compression.v \notin {"gzip", "lzf"}
    THEN Out(nwb, md, "AssertionError")
    ELSE IF nwb.none THEN Out(nwb, md, "AttributeError")
    ELSE IF ~nwb.electrodes.present \/ Len(nwb.electrodes.ids) = 0
    THEN AfterElectrodes(add_electrodes(nwb, rec, md, kw, order_in), rec, kw, low_memory, ub)
    ELSE PlaceSeries(nwb, rec, md, kw, low_memory, ub)

(***************************************************************************)
(* add_units.  A unit property is a Python value; a spike feature of a     *)
(* unit is given by the number n of its values (one per spike, if          *)
(* complete), the type ty of one value and, for list values, the shape of  *)
(* one value.                                                              *)
(***************************************************************************)
\* an outcome of add_units: it also appends to the lists skip_properties and
\* skip_features when the caller passed them
UnitsOut(nwb, kw, exc) == [nwb |-> nwb, kwargs |-> kw, raised |-> exc]

\* the feature names for which ft.endswith("_idxs") holds
IdxsNames == {"amps_idxs"}

all_properties(srt) == UNION { DOMAIN srt.props[u] : u \in Range(srt.unit_ids) }

all_features(srt) == UNION { DOMAIN srt.features[u] : u \in Range(srt.unit_ids) }

\* lines 749-755: what is appended to shapes for a value (1 for a scalar,
\* the length of a 1-D list, the shape otherwise), as a sequence
ValueShape(val) == IF val.ty \in {"real", "str"} THEN <<1>> ELSE val.shape

\* lines 745-762: the shapes of one property, unit after unit up to the
\* first dictionary; an entry is <<"nan">> for a unit without the property
RECURSIVE UnitShapes(_, _, _, _)
UnitShapes(srt, pr, i, shapes) ==
    IF i > Len(srt.unit_ids) THEN [shapes |-> shapes, dict |-> FALSE]
    ELSE LET u == srt.unit_ids[i] IN
         IF pr \notin DOMAIN srt.props[u]
         THEN UnitShapes(srt, pr, i + 1, Append(shapes, <<"nan">>))
         ELSE IF srt.props[u][pr].ty \in {"real", "str", "list", "array"}
         THEN UnitShapes(srt, pr, i + 1, Append(shapes, <<"shape", ValueShape(srt.props[u][pr])>>))
         ELSE IF srt.props[u][pr].ty = "dict" THEN [shapes |-> shapes, dict |-> TRUE]
         ELSE UnitShapes(srt, pr, i + 1, shapes)

\* a check that finds no property of variable size
NeverVariableSize(shapes) == FALSE

\* lines 764-768: the shapes that are not nan are not all equal
VariableSize(shapes) ==
    LET elems == SelectSeq(shapes, LAMBDA e : e[1] # "nan")
    IN \E i \in DOMAIN elems : elems[i] # elems[1]

\* the properties that lines 744-768 append to skip_properties
SkippedProperties(srt) ==
    { pr \in all_properties(srt) :
        LET s == UnitShapes(srt, pr, 1, <<>>) IN s.dict \/ VariableSize(s.shapes) }

\* NWBFile.add_unit_column: the Units table is created on first use
NewUnitsTable == [present |-> TRUE, ids |-> <<>>, cols |-> <<>>]

CheckUnits(tbl) == IF tbl.present THEN tbl ELSE NewUnitsTable

\* NWBFile.add_unit: spike_times becomes a column when first given
add_unit(tbl, id, row) ==
    LET t0 == CheckUnits(tbl)
        t1 == IF "spike_times" \in DOMAIN t0.cols THEN t0
              ELSE AddColumn(t0, "spike_times", [k \in DOMAIN t0.ids |-> <<>>])
    IN AddRow(t1, id, row)

\* lines 786-789: the spike times of a unit, in seconds
SpikeTimes(srt, u) ==
    [k \in DOMAIN srt.spike_trains[u] |-> Q(srt.spike_trains[u][k], srt.sampling_frequency.v)]

\* lines 790-795: the row of one unit
UnitKwargs(srt, u, write_properties) ==
    [pr \in write_properties \cup {"spike_times"} |->
        IF pr = "spike_times" THEN SpikeTimes(srt, u)
        ELSE IF pr \in DOMAIN srt.props[u] THEN srt.props[u][pr] ELSE np_nan]

RECURSIVE AddUnitColumns(_, _)
AddUnitColumns(tbl, names) ==
    IF names = {} THEN tbl
    ELSE LET pr == CHOOSE n \in names : TRUE IN
         AddUnitColumns(AddColumn(CheckUnits(tbl), pr, <<>>), names \ {pr})

RECURSIVE AddUnitRows(_, _, _, _)
AddUnitRows(tbl, srt, write_properties, i) ==
    IF i > Len(srt.unit_ids) THEN tbl
    ELSE AddUnitRows(add_unit(tbl, srt.unit_ids[i], UnitKwargs(srt, srt.unit_ids[i], write_properties)),
                     srt, write_properties, i + 1)

\* lines 800-818: the walk over the units for one feature: what it appends
\* to feature_shapes and skip_features, and whether feat_value[0] fails
RECURSIVE FeatureWalk(_, _, _, _)
FeatureWalk(srt, ft, i, shapes) ==
    IF i > Len(srt.unit_ids) THEN [shapes |-> shapes, skip |-> FALSE, raised |-> "none"]
    ELSE LET u == srt.unit_ids[i] IN
         IF ft \notin DOMAIN srt.features[u] THEN [shapes |-> shapes, skip |-> TRUE, raised |-> "none"]
         ELSE LET fv == srt.features[u][ft] IN
              IF fv.n = 0 THEN [shapes |-> shapes, skip |-> FALSE, raised |-> "IndexError"]
              ELSE IF fv.ty = "real" THEN [shapes |-> shapes, skip |-> FALSE, raised |-> "none"]
              ELSE IF fv.ty = "list" THEN FeatureWalk(srt, ft, i + 1, Append(shapes, fv.shape))
              ELSE IF fv.ty = "dict" THEN [shapes |-> shapes, skip |-> TRUE, raised |-> "none"]
              ELSE FeatureWalk(srt, ft, i + 1, shapes)

\* lines 822-826: the shapes of a feature differ past the first dimension
FeatureVariableSize(shapes) == \E i \in DOMAIN shapes : shapes[i] # shapes[1]

\* lines 800-826: the features appended to skip_features, walked in the
\* iteration order of the set all_features; the walk stops at the first
\* feature for which feat_value[0] fails
RECURSIVE SkippedFeatures(_, _, _, _)
SkippedFeatures(srt, order, i, skipped) ==
    IF i > Len(order)
    THEN [skipped |-> skipped \cup { ft \in Range(order) :
                                        FeatureVariableSize(FeatureWalk(srt, ft, 1, <<>>).shapes) },
          raised |-> "none"]
    ELSE LET w == FeatureWalk(srt, order[i], 1, <<>>) IN
         IF w.raised # "none" THEN [skipped |-> skipped, raised |-> w.raised]
         ELSE SkippedFeatures(srt, order, i + 1, IF w.skip THEN skipped \cup {order[i]} ELSE skipped)

\* lines 831-844: the values gathered for one feature, unit after unit, up
\* to a unit with fewer values than spikes; a value is named by its unit and
\* its position
RECURSIVE GatherValues(_, _, _, _)
GatherValues(srt, ft, i, values) ==
    IF i > Len(srt.unit_ids) THEN [values |-> values, skip |-> FALSE, raised |-> "none"]
    ELSE LET u == srt.unit_ids[i] IN
         IF ft \notin DOMAIN srt.features[u] THEN [values |-> values, skip |-> FALSE, raised |-> "ValueError"]
         ELSE IF srt.features[u][ft].n < Len(srt.spike_trains[u])
         THEN [values |-> values, skip |-> TRUE, raised |-> "none"]
         ELSE GatherValues(srt, ft, i + 1,
                           values \o [k \in 1..srt.features[u][ft].n |-> [unit |-> u, k |-> k]])

\* np.cumsum of the spike counts
RECURSIVE CumSum(_, _)
CumSum(srt, i) ==
    IF i = 0 THEN <<>>
    ELSE LET before == CumSum(srt, i - 1)
             n == Len(srt.spike_trains[srt.unit_ids[i]])
         IN Append(before, IF i = 1 THEN n ELSE before[i - 1] + n)

\* lines 828-858: the features are written one by one, in the iteration
\* order of the set of those not skipped, as an indexed column (the values
\* in column ft, the index in column ft_index)
RECURSIVE WriteFeatures(_, _, _, _, _)
WriteFeatures(tbl, srt, order, i, skipped) ==
    IF i > Len(order) THEN [tbl |-> tbl, skipped |-> skipped, raised |-> "none"]
    ELSE LET ft == order[i] IN
         IF ft \in IdxsNames THEN WriteFeatures(tbl, srt, order, i + 1, skipped)
         ELSE LET g == GatherValues(srt, ft, 1, <<>>)
                  skipped1 == IF g.skip THEN skipped \cup {ft} ELSE skipped
              IN IF g.raised # "none" THEN [tbl |-> tbl, skipped |-> skipped1, raised |-> g.raised]
                 ELSE IF ft \in DOMAIN tbl.cols THEN WriteFeatures(tbl, srt, order, i + 1, skipped1)
                 ELSE WriteFeatures(
                          AddColumn(AddColumn(tbl, ft, g.values), ft \o "_index", CumSum(srt, Len(srt.unit_ids))),
                          srt, order, i + 1, skipped1)

\* the list a keyword argument holds after names were appended to it; the
\* list made for a missing argument is local to the call
Appended(opt, names) == IF opt.given THEN [opt EXCEPT !.v = opt.v \cup names] ELSE opt

\* lines 741-858: the Units table is written; order_ft is the iteration
\* order of all_features, order_w that of the features not skipped
WriteUnits(nwb, srt, kw, order_ft, order_w) ==
    LET skip_p == SkippedProperties(srt)
        kw1 == [kw EXCEPT !.skip_properties = Appended(kw.skip_properties, skip_p)]
        write_properties == all_properties(srt) \ (kw.skip_properties.v \cup skip_p)
        t1 == AddUnitColumns(nwb.units, write_properties)
        t2 == AddUnitRows(t1, srt, write_properties, 1)
        nwb2 == [nwb EXCEPT !.units = t2]
        sf == SkippedFeatures(srt, order_ft, 1, {})
        kw2 == [kw1 EXCEPT !.skip_features = Appended(kw.skip_features, sf.skipped)]
    IN IF sf.raised # "none" THEN UnitsOut(nwb2, kw2, sf.raised)
       ELSE LET todo == SelectSeq(order_w, LAMBDA ft : ft \notin kw.skip_features.v \cup sf.skipped)
                w == WriteFeatures(t2, srt, todo, 1, {})
            IN UnitsOut([nwb EXCEPT !.units = w.tbl],
                        [kw2 EXCEPT !.skip_features = Appended(kw2.skip_features, w.skipped)],
                        w.raised)

\* a guard that takes the Units table for absent whatever it holds
UnitsTakenAsNone(nwb) == TRUE

\* line 741: self.nwbfile.units is None
UnitsIsNone(nwb) == ~nwb.units.present

\* a check that takes the sampling frequency for known
FsTakenAsKnown(srt) == TRUE

\* line 723: fs is not None
FsIsKnown(srt) == srt.sampling_frequency.given

add_units(nwb, srt, kw, order_ft, order_w) ==
    IF ~FsIsKnown(srt) THEN UnitsOut(nwb, kw, "ValueError")
    ELSE IF nwb.none THEN UnitsOut(nwb, kw, "AttributeError")
    ELSE IF ~UnitsIsNone(nwb) THEN UnitsOut(nwb, kw, "none")
    ELSE WriteUnits(nwb, srt, kw, order_ft, order_w)

(***************************************************************************)
(* add_devices (basenwbephyswriter.py) and add_epochs.                     *)
(***************************************************************************)
\* dev.get("name", defaults["name"])
DeviceName(name) == IF name = "" THEN "Device" ELSE name

\* lines 69-70: self.metadata after the call
SelfMetadata(md) == IF md.none THEN MetadataEmpty ELSE md

\* lines 72-79: metadata["Ecephys"]["Device"] of the copy the loop walks;
\* "" stands for an entry without a name
DevicesOf(md) == IF md.Ecephys /\ md.Device.present THEN md.Device.names ELSE <<"Device">>

\* NWBFile.create_device: a second device of one name is refused
create_device(nwb, name) ==
    IF name \in nwb.devices THEN Ret(nwb, "ValueError")
    ELSE Ret([nwb EXCEPT !.devices = nwb.devices \cup {name}], "none")

\* a test that finds no device whatever the container holds
DeviceTakenAsMissing(nwb, name) == TRUE

\* line 82: dev.get("name", defaults["name"]) not in self.nwbfile.devices
DeviceMissing(nwb, name) == name \notin nwb.devices

\* lines 81-83: the loop over the devices of the metadata
RECURSIVE CreateDevices(_, _, _)
CreatedDevice(r, devs, i) == IF r.raised # "none" THEN r ELSE CreateDevices(r.nwb, devs, i + 1)

CreateDevices(nwb, devs, i) ==
    IF i > Len(devs) THEN Ret(nwb, "none")
    ELSE IF DeviceMissing(nwb, DeviceName(devs[i]))
    THEN CreatedDevice(create_device(nwb, DeviceName(devs[i])), devs, i)
    ELSE CreateDevices(nwb, devs, i + 1)

\* without a container, self.nwbfile.devices fails (line 82, or line 85 when
\* the list is empty)
add_devices(nwb, md) ==
    IF nwb.none THEN Out(nwb, SelfMetadata(md), "AttributeError")
    ELSE WithMetadata(CreateDevices(nwb, DevicesOf(SelfMetadata(md)), 1), SelfMetadata(md))

\* recording.frame_to_time(frame), in seconds
frame_to_time(rec, frame) == Q(frame, rec.sampling_frequency)

\* the first row of the epochs table tagged with the name
TaggedRow(epochs, name) ==
    CHOOSE i \in DOMAIN epochs : epochs[i].tags = name /\ \A k \in 1..(i - 1) : epochs[k].tags # name

\* lines 874-891: one epoch is added, or the row of its name is updated; the
\* epochs table is None (here <<>>) until the first row is added
AddEpoch(nwb, rec, epoch) ==
    IF nwb.epochs = <<>>
    THEN [nwb EXCEPT !.epochs = <<[tags |-> epoch.name,
                                   start_time |-> frame_to_time(rec, epoch.start_frame),
                                   stop_time |-> frame_to_time(rec, epoch.end_frame - 1)]>>]
    ELSE IF \E i \in DOMAIN nwb.epochs : nwb.epochs[i].tags = epoch.name
    THEN [nwb EXCEPT !.epochs[TaggedRow(nwb.epochs, epoch.name)] =
                        [tags |-> epoch.name,
                         start_time |-> frame_to_time(rec, epoch.start_frame),
                         stop_time |-> frame_to_time(rec, epoch.end_frame)]]
    ELSE [nwb EXCEPT !.epochs = Append(nwb.epochs,
                                       [tags |-> epoch.name,
                                        start_time |-> frame_to_time(rec, epoch.start_frame),
                                        stop_time |-> frame_to_time(rec, epoch.end_frame)])]

RECURSIVE AddEpochs(_, _, _)
AddEpochs(nwb, rec, i) ==
    IF i > Len(rec.epochs) THEN nwb ELSE AddEpochs(AddEpoch(nwb, rec, rec.epochs[i]), rec, i + 1)

add_epochs(nwb, rec) ==
    IF nwb.none /\ rec.epochs # <<>> THEN Ret(nwb, "AttributeError")
    ELSE Ret(AddEpochs(nwb, rec, 1), "none")

(***************************************************************************)
(* write_recording and write_sorting.  The storage at the target path is   *)
(* a file or not; the writer opens it through one handle, which the with   *)
(* statement closes when the block is left, normally or by an exception.   *)
(* The trace of the storage lists, in their order, the opening of the      *)
(* handle, the methods called on the container, the write and the closing. *)
(***************************************************************************)
\* an outcome of a write: what the writer and the storage are left with
WriteOut(nwb, md, kw, sto, exc) ==
    [nwb |-> nwb, metadata |-> md, kwargs |-> kw, storage |-> sto, raised |-> exc]

\* the sorted distinct group ids of the channels, as strings
RECURSIVE SortedNames(_)
SortedNames(S) ==
    IF S = {} THEN <<>>
    ELSE LET m == CHOOSE x \in S : \A y \in S : x <= y IN <<StrInt(m)>> \o SortedNames(S \ {m})

get_nwb_metadata(rec) ==
    [MetadataEcephys EXCEPT !.Device = Listed(<<"Device">>),
                            !.ElectrodeGroup = Listed(SortedNames({ rec.groups[ch] : ch \in DOMAIN rec.groups }))]

\* the storage is opened for writing whatever is at the path
AlwaysWriteMode(sto, kw) == "w"

\* lines 125-129 and 198-202: the mode the storage is opened in
ReadMode(sto, kw) == IF sto.is_file /\ ~kw.overwrite THEN "r+" ELSE "w"

\* pynwb.NWBHDF5IO(path, mode) as the with statement enters it
Open(sto, mode) ==
    [sto EXCEPT !.opened = sto.opened + 1, !.mode = mode, !.trace = Append(sto.trace, "open")]

\* a handle that is left open
LeftOpen(sto) == sto

\* the with statement leaves the block
Close(sto) == [sto EXCEPT !.closed = sto.closed + 1, !.trace = Append(sto.trace, "close")]

\* io.write(self.nwbfile)
Write(sto, nwb) ==
    [sto EXCEPT !.is_file = TRUE, !.file = nwb, !.writes = sto.writes + 1,
                !.trace = Append(sto.trace, "write")]

\* the methods called on the container, in the order of their calls
Ran(sto, names) == [sto EXCEPT !.trace = sto.trace \o names]

\* the outcome of a method after which further steps (o) were taken
Logged(name, o) ==
    [nwb |-> o.nwb, metadata |-> o.metadata, raised |-> o.raised,
     ran |-> <<name>> \o (IF "ran" \in DOMAIN o THEN o.ran ELSE <<>>)]

\* io.read() or instantiate_nwbfile()
Loaded(sto, mode) == IF mode = "r+" THEN sto.file ELSE EmptyNwb

\* lines 141-142: add_epochs after add_electrical_series (s is its outcome)
StepEpochs(s, rec) ==
    IF s.raised # "none" THEN s
    ELSE Logged("add_epochs", WithMetadata(add_epochs(s.nwb, rec), s.metadata))

\* lines 140-142 after add_electrodes (e is its outcome)
StepSeries(e, rec, kw, order_in, low_memory, ub) ==
    IF e.raised # "none" \/ ~kw.write_electrical_series THEN e
    ELSE Logged("add_electrical_series",
                StepEpochs(add_electrical_series(e.nwb, rec, e.metadata, kw, order_in, low_memory, ub), rec))

\* lines 139-142 after add_electrode_groups (g is its outcome)
StepElectrodes(g, rec, md, kw, order_in, low_memory, ub) ==
    IF g.raised # "none" THEN Out(g.nwb, md, g.raised)
    ELSE Logged("add_electrodes",
                StepSeries(add_electrodes(g.nwb, rec, md, kw, order_in), rec, kw, order_in, low_memory, ub))

\* lines 138-142 after add_devices (d is its outcome)
StepGroups(d, rec, kw, order_in, low_memory, ub) ==
    IF d.raised # "none" THEN d
    ELSE Logged("add_electrode_groups",
                StepElectrodes(add_electrode_groups(d.nwb), rec, d.metadata, kw, order_in, low_memory, ub))

\* lines 136-142 and 147-152: the steps of write_recording in their order
RecordingSteps(nwb, rec, md, kw, order_in, low_memory, ub) ==
    Logged("add_devices", StepGroups(add_devices(nwb, md), rec, kw, order_in, low_memory, ub))

\* the container of a path-mode call is not kept on the writer
StoredNotKept(r, kw, sto, mode) ==
    IF mode = "" THEN WriteOut(r.nwb, r.metadata, kw, Ran(sto, r.ran), r.raised)
    ELSE WriteOut(NoneNwb, r.metadata, kw, Close(Ran(Open(sto, mode), r.ran)), r.raised)

\* the outcome of the steps (r) as the outcome of write_recording: without
\* a path (mode "") nothing is stored; with a path the with block is left
\* after io.write if the steps went through, by the exception otherwise
Stored(r, kw, sto, mode) ==
    IF mode = "" THEN WriteOut(r.nwb, r.metadata, kw, Ran(sto, r.ran), r.raised)
    ELSE IF r.raised # "none"
    THEN WriteOut(r.nwb, r.metadata, kw, Close(Ran(Open(sto, mode), r.ran)), r.raised)
    ELSE WriteOut(r.nwb, r.metadata, kw, Close(Write(Ran(Open(sto, mode), r.ran), r.nwb)), "none")

\* recording.nwb_metadata of a recording that carries metadata: it names
\* the device "attached"
nwb_metadata(rec) ==
    [MetadataEcephys EXCEPT !.Device = Listed(<<"attached">>)]

\* json_schema.dict_deep_update(d, u): the tree d with the tree u merged onto
\* it; a leaf of u wins, keys of d that u does not hold are kept
dict_deep_update(d, u) ==
    IF u.none THEN d
    ELSE [none |-> FALSE,
          Ecephys |-> d.Ecephys \/ u.Ecephys,
          Device |-> IF u.Device.present THEN u.Device ELSE d.Device,
          ElectrodeGroup |-> IF u.ElectrodeGroup.present THEN u.ElectrodeGroup ELSE d.ElectrodeGroup,
          Electrodes |-> IF u.Electrodes.present THEN u.Electrodes ELSE d.Electrodes,
          series |-> u.series @@ d.series]

\* line 120: the local variable metadata, which no later statement reads
LocalMetadata(rec, md) == dict_deep_update(nwb_metadata(rec), md)

\* lines 119-123: self.metadata before the steps
MetadataForRecording(rec, md) ==
    IF rec.has_nwb_metadata THEN md
    ELSE IF md.none THEN get_nwb_metadata(rec) ELSE md

\* a test that never finds both targets
NeverBothTargets(path, nwb) == FALSE

\* lines 114-116 and 192-194: a path and a container are both given
BothTargets(path, nwb) == path.given /\ ~nwb.none

write_recording(nwb, rec, md, kw, path, sto, order_in, low_memory, ub) ==
    IF BothTargets(path, nwb) THEN WriteOut(nwb, md, kw, sto, "AssertionError")
    ELSE IF nwb.none
    THEN Stored(RecordingSteps(Loaded(sto, ReadMode(sto, kw)), rec, MetadataForRecording(rec, md), kw,
                               order_in, low_memory, ub),
                kw, sto, ReadMode(sto, kw))
    ELSE Stored(RecordingSteps(nwb, rec, MetadataForRecording(rec, md), kw, order_in, low_memory, ub),
                kw, sto, "")

\* the outcome of add_units (u) as the outcome of write_sorting
StoredUnits(u, md, sto, mode) ==
    IF mode = "" THEN WriteOut(u.nwb, md, u.kwargs, Ran(sto, <<"add_units">>), u.raised)
    ELSE IF u.raised # "none"
    THEN WriteOut(u.nwb, md, u.kwargs, Close(Ran(Open(sto, mode), <<"add_units">>)), u.raised)
    ELSE WriteOut(u.nwb, md, u.kwargs, Close(Write(Ran(Open(sto, mode), <<"add_units">>), u.nwb)), "none")

write_sorting(nwb, srt, md, kw, path, sto, order_ft, order_w) ==
    IF BothTargets(path, nwb) THEN WriteOut(nwb, md, kw, sto, "AssertionError")
    ELSE IF nwb.none
    THEN StoredUnits(add_units(Loaded(sto, ReadMode(sto, kw)), srt, kw, order_ft, order_w),
                     md, sto, ReadMode(sto, kw))
    ELSE StoredUnits(add_units(nwb, srt, kw, order_ft, order_w), md, sto, "")

(***************************************************************************)
(* SI013NwbEphysWriter.__init__ (with BaseNwbEphysWriter.__init__): the    *)
(* writer's attributes for the arguments, or the AssertionError of the     *)
(* base class when neither a path nor a container is given.                *)
(***************************************************************************)
__init__(path, nwb, md, kw) ==
    [raised |-> IF ~path.given /\ nwb.none THEN "AssertionError" ELSE "none",
     nwb_file_path |-> path, nwbfile |-> nwb, metadata |-> md, kwargs |-> kw]

(***************************************************************************)
(* Containers, extractors and writer arguments the model starts from.      *)
(***************************************************************************)
MaxChannels == 2

NumFrames == 2

\* a row as pynwb stores it for an electrode of the given group
StdRow(group_name) ==
    [x |-> np_nan, y |-> np_nan, z |-> np_nan, imp |-> Real("-1.0"),
     location |-> Text("unknown"), filtering |-> Text("none"),
     group |-> Val("group", group_name, <<>>), group_name |-> Text(group_name)]

\* an Electrodes table holding the electrodes 0 and 1
TableA == AddRow(AddRow(NewElectrodeTable, 0, StdRow("0")), 1, StdRow("1"))

\* the same with a user column "q" of strings
TableQ ==
    LET t == AddColumn(NewElectrodeTable, "q", <<>>) IN
    AddRow(AddRow(t, 0, Update(StdRow("0"), [q |-> Text("a")])), 1, Update(StdRow("1"), [q |-> Text("b")]))

ElectrodeContainers ==
    { EmptyNwb,
      [EmptyNwb EXCEPT !.devices = {"Device"}, !.electrode_groups = {"0"}],
      [EmptyNwb EXCEPT !.devices = {"Device"}, !.electrode_groups = {"0", "1"}],
      [EmptyNwb EXCEPT !.devices = {"Device"}, !.electrode_groups = {"0", "1"}, !.electrodes = TableA],
      [EmptyNwb EXCEPT !.devices = {"Device"}, !.electrode_groups = {"0", "1"}, !.electrodes = TableQ] }

\* the properties one channel may carry: a property q of several types
\* (with a second property w), or the properties the writer treats apart
TypedProps ==
    { <<>> }
    \cup { [q |-> v] : v \in {Real("1.0"), Text("a"), List("l", 3), Dict("d")} }
    \cup { [q |-> Array("r", <<3>>), w |-> Text("b")], [w |-> Text("b")] }

NamedProps ==
    { <<>>, [group_name |-> Text("0")], [group_name |-> Text("9")], [brain_area |-> Text("CA1")] }

ChannelIds(first, n) == [i \in 1..n |-> first + i - 1]

ChannelIdChoices == { ChannelIds(first, MaxChannels) : first \in {0, 1, 2} }

\* the channel group of a channel (get_channel_groups)
GroupOf(ch) == ch % 2

Uint8 == [unsigned |-> TRUE, bits |-> 8]

Int8 == [unsigned |-> FALSE, bits |-> 8]

\* the raw samples of a recording of the dtype: "low" ones fit the signed
\* type of the same width, "high" ones are its large (or negative) values
Sample(dtype, pattern, ch, f) ==
    IF pattern = "low" THEN 10 * ch + f
    ELSE IF dtype.unsigned THEN 200 + 10 * ch + f
    ELSE 0 - (100 + 10 * ch + f)

Traces(ids, dtype, pattern) ==
    [ch \in Range(ids) |-> [f \in 1..NumFrames |-> Sample(dtype, pattern, ch, f)]]

\* a recording of int8 samples with gain 1 and offset 0 on every channel
PlainRecording(ids, pr, loc) ==
    [channel_ids |-> ids, props |-> pr, groups |-> [ch \in Range(ids) |-> GroupOf(ch)], located |-> loc,
     gains |-> [ch \in Range(ids) |-> Q(1, 1)], offsets |-> [ch \in Range(ids) |-> Q(0, 1)],
     dtype |-> Int8, traces |-> Traces(ids, Int8, "low"), num_frames |-> NumFrames, memmap |-> FALSE,
     sampling_frequency |-> 1000, epochs |-> <<>>, has_nwb_metadata |-> FALSE]

RecordingsOn(ids, props, locs) ==
    { PlainRecording(ids, pr, loc) : loc \in locs, pr \in [Range(ids) -> props] }

NoRecording == PlainRecording(<<>>, <<>>, FALSE)

NoSorting ==
    [unit_ids |-> <<>>, sampling_frequency |-> NoneInt, props |-> <<>>,
     spike_trains |-> <<>>, features |-> <<>>]

\* the keyword arguments of the writer, each with the default the methods
\* give it when the caller leaves it out
DefaultKwargs ==
    [exclude_properties |-> {}, buffer_mb |-> 500, use_times |-> FALSE, write_as |-> "raw",
     es_key |-> None, write_scaled |-> FALSE, compression |-> Some("gzip"),
     compression_opts |-> NoneInt, iterate |-> TRUE,
     skip_properties |-> NoneList, skip_features |-> NoneList,
     overwrite |-> FALSE, write_electrical_series |-> TRUE]

MetadataElectrodes(names) == [MetadataEcephys EXCEPT !.Electrodes = Listed(names)]

DefaultArgs == [kwargs |-> DefaultKwargs, metadata |-> MetadataNone]

ElectrodeArgs ==
    { DefaultArgs,
      [kwargs |-> DefaultKwargs, metadata |-> MetadataElectrodes(<<"q">>)],
      [kwargs |-> DefaultKwargs, metadata |-> MetadataElectrodes(<<"x">>)],
      [kwargs |-> DefaultKwargs, metadata |-> MetadataElectrodes(<<"zz">>)],
      [kwargs |-> DefaultKwargs, metadata |-> MetadataElectrodes(<<"group">>)],
      [kwargs |-> [DefaultKwargs EXCEPT !.exclude_properties = {"q"}], metadata |-> MetadataEmpty],
      [kwargs |-> [DefaultKwargs EXCEPT !.exclude_properties = {"q"}], metadata |-> MetadataElectrodes(<<"q">>)] }

\* the writers the model starts from: typed properties under every
\* argument, and the named properties with and without channel locations
ElectrodeInputs ==
    { [recording |-> r, kwargs |-> a.kwargs, metadata |-> a.metadata] :
        r \in UNION { RecordingsOn(ids, TypedProps, {FALSE}) : ids \in ChannelIdChoices },
        a \in ElectrodeArgs }
    \cup
    { [recording |-> r, kwargs |-> a.kwargs, metadata |-> a.metadata] :
        r \in UNION { RecordingsOn(ids, NamedProps, BOOLEAN) : ids \in ChannelIdChoices },
        a \in {DefaultArgs} }

\* the iteration orders of a set of names
Orders(S) == { s \in [1..Cardinality(S) -> S] : \A i, j \in DOMAIN s : i # j => s[i] # s[j] }

\* no file at the target path, nothing opened yet
NoStorage ==
    [is_file |-> FALSE, file |-> EmptyNwb, opened |-> 0, closed |-> 0, mode |-> "", writes |-> 0,
     trace |-> <<>>]

\* before the first call; prev is the call before the last one
NoCall ==
    [op |-> "none", pre |-> EmptyNwb, sto |-> NoStorage, kw |-> DefaultKwargs, raised |-> "none",
     prev |-> [op |-> "none", raised |-> "none"]]

\* gain and offset of one channel
GainOffsets ==
    { <<Q(1, 1), Q(0, 1)>>, <<Q(2, 1), Q(0, 1)>>, <<Q(1, 2), Q(0, 1)>>,
      <<Q(2, 1), Q(1, 1)>>, <<Q(1, 1), Q(0 - 128, 1)>>, <<Q(0, 1), Q(0, 1)>> }

\* recordings on the channels of TableA that differ in gains, offsets,
\* dtype, samples and in whether get_traces returns a memmap
NumericRecordings ==
    { [PlainRecording(ChannelIds(0, MaxChannels), [ch \in Range(ChannelIds(0, MaxChannels)) |-> <<>>], FALSE)
         EXCEPT !.gains = [ch \in DOMAIN go |-> go[ch][1]],
                !.offsets = [ch \in DOMAIN go |-> go[ch][2]],
                !.dtype = dt,
                !.traces = Traces(ChannelIds(0, MaxChannels), dt, pat),
                !.memmap = mm] :
        go \in [Range(ChannelIds(0, MaxChannels)) -> GainOffsets],
        dt \in {Uint8, Int8}, pat \in {"low", "high"}, mm \in BOOLEAN }

NumericKwargs ==
    { [DefaultKwargs EXCEPT !.write_scaled = ws, !.iterate = it] : ws \in BOOLEAN, it \in BOOLEAN }

\* a container that holds the groups and one electrode per channel of TableA,
\* grown to the channels of the recordings
RECURSIVE TableOn(_, _)
TableOn(first, n) ==
    IF n = 0 THEN NewElectrodeTable
    ELSE AddRow(TableOn(first, n - 1), first + n - 1, StdRow(StrInt(GroupOf(first + n - 1))))

ReadyNwb(first) ==
    [EmptyNwb EXCEPT !.devices = {"Device"}, !.electrode_groups = {"0", "1"},
                     !.electrodes = TableOn(first, MaxChannels)]

MetadataSeries == [MetadataEcephys EXCEPT !.series = ("ElectricalSeries_raw" :> "my_series")]

\* a recording whose offset/gain is 1/2 on every channel
HalfStepRecording ==
    [PlainRecording(ChannelIds(0, MaxChannels), [ch \in Range(ChannelIds(0, MaxChannels)) |-> <<>>], FALSE)
        EXCEPT !.gains = [ch \in Range(ChannelIds(0, MaxChannels)) |-> Q(2, 1)],
               !.offsets = [ch \in Range(ChannelIds(0, MaxChannels)) |-> Q(1, 1)]]

\* arguments that steer where and under which name the series is written
SeriesKwargs ==
    { DefaultKwargs,
      [DefaultKwargs EXCEPT !.write_as = "processed"],
      [DefaultKwargs EXCEPT !.write_as = "lfp"],
      [DefaultKwargs EXCEPT !.write_as = "traces"],
      [DefaultKwargs EXCEPT !.es_key = Some("ElectricalSeries_raw")],
      [DefaultKwargs EXCEPT !.es_key = Some("ElectricalSeries_lfp"), !.write_as = "lfp"],
      [DefaultKwargs EXCEPT !.compression = Some("lzf"), !.compression_opts = [given |-> TRUE, v |-> 4]],
      [DefaultKwargs EXCEPT !.compression = None],
      [DefaultKwargs EXCEPT !.compression = Some("zip")],
      [DefaultKwargs EXCEPT !.compression_opts = [given |-> TRUE, v |-> 12]],
      [DefaultKwargs EXCEPT !.compression_opts = [given |-> TRUE, v |-> 9]],
      [DefaultKwargs EXCEPT !.buffer_mb = 10] }

SeriesContainers ==
    { EmptyNwb, NoneNwb,
      [EmptyNwb EXCEPT !.devices = {"Device"}, !.electrode_groups = {"0", "1"}],
      ReadyNwb(0), ReadyNwb(1) }

\* the writers add_electrical_series starts from
SeriesInputs ==
    { [nwbfile |-> ReadyNwb(0), recording |-> r, kwargs |-> kw, metadata |-> MetadataNone] :
        r \in NumericRecordings, kw \in NumericKwargs }
    \cup
    { [nwbfile |-> nwb,
       recording |-> PlainRecording(ChannelIds(0, MaxChannels),
                                    [ch \in Range(ChannelIds(0, MaxChannels)) |-> <<>>], FALSE),
       kwargs |-> kw, metadata |-> md] :
        nwb \in SeriesContainers, kw \in SeriesKwargs, md \in {MetadataNone, MetadataEcephys, MetadataSeries} }
    \cup
    { [nwbfile |-> nwb, recording |-> HalfStepRecording, kwargs |-> kw, metadata |-> MetadataNone] :
        nwb \in { ReadyNwb(0), [EmptyNwb EXCEPT !.devices = {"Device"}, !.electrode_groups = {"0", "1"}] },
        kw \in { DefaultKwargs, [DefaultKwargs EXCEPT !.write_as = "processed"],
                 [DefaultKwargs EXCEPT !.write_as = "lfp"] } }

MaxUnits == 2

UnitIds == [i \in 1..MaxUnits |-> i - 1]

\* the properties one unit may carry
UnitProps ==
    { <<>>,
      [p |-> List("l", 3)], [p |-> List("l", 5)], [p |-> Real("1.0")], [p |-> Dict("d")],
      [p |-> List("l", 3), q |-> Text("a")],
      [p |-> Array("r", <<2, 3>>), q |-> Text("b")], [p |-> Array("r", <<2, 4>>)] }

\* the spike features one unit may carry (every unit has two spikes); a
\* feature set for some of the spikes only comes with its amps_idxs
UnitFeatures ==
    { <<>>,
      [amps |-> [n |-> 2, ty |-> "real", shape |-> <<>>]],
      [amps |-> [n |-> 1, ty |-> "real", shape |-> <<>>], amps_idxs |-> [n |-> 1, ty |-> "real", shape |-> <<>>]],
      [amps |-> [n |-> 0, ty |-> "real", shape |-> <<>>], amps_idxs |-> [n |-> 0, ty |-> "real", shape |-> <<>>]],
      [amps |-> [n |-> 2, ty |-> "dict", shape |-> <<>>]],
      [wf |-> [n |-> 2, ty |-> "list", shape |-> <<3>>], amps_idxs |-> [n |-> 2, ty |-> "real", shape |-> <<>>]],
      [wf |-> [n |-> 2, ty |-> "list", shape |-> <<4>>], amps |-> [n |-> 2, ty |-> "real", shape |-> <<>>]] }

SpikeTrain(u) == <<10 * u + 1, 10 * u + 5>>

Sortings(fss, props, features) ==
    { [unit_ids |-> UnitIds, sampling_frequency |-> fs, props |-> pr,
       spike_trains |-> [u \in Range(UnitIds) |-> SpikeTrain(u)], features |-> ft] :
        fs \in fss, pr \in [Range(UnitIds) -> props], ft \in [Range(UnitIds) -> features] }

\* a Units table that holds one unit
UnitsA == add_unit(NoTable, 7, [spike_times |-> <<Q(3, 30000)>>])

NwbWithUnits == [EmptyNwb EXCEPT !.units = UnitsA]

\* a Units table with a column and no row yet
NwbWithUnitColumn == [EmptyNwb EXCEPT !.units = AddColumn(NewUnitsTable, "q", <<>>)]

FileOf(nwb) == [NoStorage EXCEPT !.is_file = TRUE, !.file = nwb]

\* what a sorting writer is constructed on: a container, a path (with or
\* without a file there), or both
SortingTargets ==
    { [nwbfile |-> nwb, nwb_file_path |-> None, storage |-> NoStorage] :
        nwb \in {EmptyNwb, NwbWithUnits, NwbWithUnitColumn} }
    \cup
    { [nwbfile |-> NoneNwb, nwb_file_path |-> Some("out.nwb"), storage |-> sto] :
        sto \in {NoStorage, FileOf(EmptyNwb), FileOf(NwbWithUnits)} }
    \cup
    { [nwbfile |-> EmptyNwb, nwb_file_path |-> Some("out.nwb"), storage |-> NoStorage] }

UnitsKwargs ==
    { DefaultKwargs,
      [DefaultKwargs EXCEPT !.skip_properties = SomeList({})],
      [DefaultKwargs EXCEPT !.skip_properties = SomeList({"q"}), !.skip_features = SomeList({"wf"})],
      [DefaultKwargs EXCEPT !.overwrite = TRUE, !.use_times = TRUE] }

\* the writers add_units starts from: units that differ in their properties
\* under every target, and units that differ in their features
UnitsInputs ==
    { [target |-> t, sorting |-> srt, kwargs |-> kw] :
        t \in SortingTargets,
        srt \in Sortings({NoneInt, [given |-> TRUE, v |-> 30000]}, UnitProps, {<<>>}),
        kw \in UnitsKwargs }
    \cup
    { [target |-> t, sorting |-> srt, kwargs |-> kw] :
        t \in { [nwbfile |-> EmptyNwb, nwb_file_path |-> None, storage |-> NoStorage] },
        srt \in Sortings({[given |-> TRUE, v |-> 30000]}, {<<>>, [amps |-> Real("2.0")]}, UnitFeatures),
        kw \in UnitsKwargs }

\* the extractor of the scenario: 4 channels in the groups 0, 0, 1, 1, all
\* gains 1.0, all offsets 0, sampling rate 1000.0
ScenarioRecording ==
    [PlainRecording(<<0, 1, 2, 3>>, [ch \in 0..3 |-> <<>>], FALSE)
       EXCEPT !.groups = [ch \in 0..3 |-> IF ch < 2 THEN 0 ELSE 1],
              !.traces = [ch \in 0..3 |-> [f \in 1..NumFrames |-> 10 * ch + f]]]

Epoch(name, start_frame, end_frame) == [name |-> name, start_frame |-> start_frame, end_frame |-> end_frame]

WriteRecordings ==
    { ScenarioRecording }
    \cup
    { [PlainRecording(ChannelIds(0, MaxChannels), [ch \in Range(ChannelIds(0, MaxChannels)) |-> <<>>], FALSE)
         EXCEPT !.epochs = ep, !.has_nwb_metadata = hm] :
        ep \in { <<>>, <<Epoch("a", 0, 2)>>, <<Epoch("a", 0, 2), Epoch("b", 1, 2)>> },
        hm \in BOOLEAN }

\* what a recording writer is constructed on
RecordingTargets ==
    { [nwbfile |-> nwb, nwb_file_path |-> None, storage |-> NoStorage] :
        nwb \in { EmptyNwb, ReadyNwb(0),
                  [EmptyNwb EXCEPT !.devices = {"probe"},
                                   !.epochs = <<[tags |-> "a", start_time |-> Q(0, 1000),
                                                 stop_time |-> Q(1, 1000)]>>] } }
    \cup
    { [nwbfile |-> NoneNwb, nwb_file_path |-> Some("out.nwb"), storage |-> sto] :
        sto \in {NoStorage, FileOf(EmptyNwb), FileOf(ReadyNwb(0))} }
    \cup
    { [nwbfile |-> EmptyNwb, nwb_file_path |-> Some("out.nwb"), storage |-> NoStorage] }

MetadataDevices(names) == [MetadataEcephys EXCEPT !.Device = Listed(names)]

WriteMetadata ==
    { MetadataNone, MetadataEmpty, MetadataEcephys,
      MetadataDevices(<<"probe">>), MetadataDevices(<<"probe", "", "probe">>), MetadataDevices(<<>>) }

WriteKwargs ==
    { DefaultKwargs,
      [DefaultKwargs EXCEPT !.overwrite = TRUE],
      [DefaultKwargs EXCEPT !.write_electrical_series = FALSE] }

WriteInputs ==
    { [target |-> t, recording |-> r, metadata |-> md, kwargs |-> kw] :
        t \in RecordingTargets, r \in WriteRecordings, md \in WriteMetadata, kw \in WriteKwargs }

\* a metadata that names the processed series like the default raw one
MetadataSameName ==
    [MetadataEcephys EXCEPT !.series = ("ElectricalSeries_processed" :> "ElectricalSeries_raw")]

\* the writers that write to the three locations of one container
LocationArgs ==
    { [kwargs |-> DefaultKwargs, metadata |-> MetadataNone],
      [kwargs |-> [DefaultKwargs EXCEPT !.write_as = "processed"], metadata |-> MetadataNone],
      [kwargs |-> [DefaultKwargs EXCEPT !.write_as = "lfp"], metadata |-> MetadataEcephys],
      [kwargs |-> [DefaultKwargs EXCEPT !.es_key = Some("ElectricalSeries_raw")], metadata |-> MetadataSeries],
      [kwargs |-> [DefaultKwargs EXCEPT !.write_as = "processed", !.es_key = Some("ElectricalSeries_processed")],
       metadata |-> MetadataSameName],
      [kwargs |-> [DefaultKwargs EXCEPT !.write_as = "lfp", !.es_key = Some("ElectricalSeries_lfp")],
       metadata |-> MetadataSeries] }

\* a container with its electrodes, without or with a processing module
LocationContainers ==
    { ReadyNwb(0), WithInterface(ReadyNwb(0), "LFP") }

\* the writers write_to_nwb starts from: recording writers and sorting
\* writers on a container, on a path, or on both
PathInputs ==
    { [target |-> t, recording |-> r, sorting |-> NoSorting, metadata |-> md, kwargs |-> kw] :
        t \in RecordingTargets,
        r \in { ScenarioRecording,
                [PlainRecording(ChannelIds(0, MaxChannels), [ch \in Range(ChannelIds(0, MaxChannels)) |-> <<>>],
                                FALSE) EXCEPT !.epochs = <<Epoch("a", 0, 2)>>] },
        md \in { MetadataNone, MetadataDevices(<<"probe">>) },
        kw \in WriteKwargs }
    \cup
    { [target |-> t, recording |-> NoRecording, sorting |-> srt, metadata |-> MetadataNone, kwargs |-> kw] :
        t \in SortingTargets,
        srt \in Sortings({NoneInt, [given |-> TRUE, v |-> 30000]}, {<<>>, [q |-> Text("a")]}, {<<>>})
                \cup Sortings({[given |-> TRUE, v |-> 30000]}, {<<>>},
                              {<<>>, [amps |-> [n |-> 2, ty |-> "real", shape |-> <<>>]]}),
        kw \in { DefaultKwargs, [DefaultKwargs EXCEPT !.overwrite = TRUE] } }

Int16 == [unsigned |-> FALSE, bits |-> 16]

\* the lengths of long recordings, around the number of one-byte samples
\* that 11 MB hold
FrameCounts == {1, 1000, 5500000, 11000000, 11000001, 24000000}

\* recordings of which only the length, the dtype and the layout matter:
\* traces holds their first frames
LongRecordings ==
    { [PlainRecording(ChannelIds(0, MaxChannels), [ch \in Range(ChannelIds(0, MaxChannels)) |-> <<>>], FALSE)
         EXCEPT !.num_frames = n, !.dtype = dt, !.memmap = mm,
                !.offsets = [ch \in Range(ChannelIds(0, MaxChannels)) |-> off]] :
        n \in FrameCounts, dt \in {Int8, Int16}, mm \in BOOLEAN, off \in {Q(0, 1), Q(1, 1)} }

ChunkKwargs ==
    { [DefaultKwargs EXCEPT !.buffer_mb = mb, !.iterate = it] : mb \in {11, 500}, it \in BOOLEAN }

(***************************************************************************)
(* The actions: one per writer method.                                     *)
(***************************************************************************)
AddElectrodes ==
    /\ calls < MaxCalls
    /\ \E order_in \in Orders(property_names(recording)) :
          \E r \in {add_electrodes(nwbfile, recording, metadata, kwargs, order_in)} :
          /\ nwbfile' = r.nwb
          /\ metadata' = r.metadata
          /\ last' = [op |-> "add_electrodes", pre |-> nwbfile, sto |-> storage, kw |-> kwargs,
                       raised |-> r.raised,
                       prev |-> [op |-> last.op, raised |-> last.raised]]
    /\ calls' = calls + 1
    /\ UNCHANGED <<recording, sorting, kwargs, nwb_file_path, storage>>

\* psutil reports too little memory or not; an out-of-range float-to-int
\* conversion wraps or saturates
AddElectricalSeries ==
    /\ calls < MaxCalls
    /\ \E order_in \in Orders(property_names(recording)), low_memory \in BOOLEAN, ub \in {"wrap", "saturate"} :
          \E r \in {add_electrical_series(nwbfile, recording, metadata, kwargs, order_in, low_memory, ub)} :
          /\ nwbfile' = r.nwb
          /\ metadata' = r.metadata
          /\ last' = [op |-> "add_electrical_series", pre |-> nwbfile, sto |-> storage, kw |-> kwargs,
                       raised |-> r.raised,
                       prev |-> [op |-> last.op, raised |-> last.raised]]
    /\ calls' = calls + 1
    /\ UNCHANGED <<recording, sorting, kwargs, nwb_file_path, storage>>

AddUnits ==
    /\ calls < MaxCalls
    /\ \E order_ft \in Orders(all_features(sorting)), order_w \in Orders(all_features(sorting)) :
          \E r \in {add_units(nwbfile, sorting, kwargs, order_ft, order_w)} :
          /\ nwbfile' = r.nwb
          /\ kwargs' = r.kwargs
          /\ last' = [op |-> "add_units", pre |-> nwbfile, sto |-> storage, kw |-> kwargs,
                       raised |-> r.raised,
                       prev |-> [op |-> last.op, raised |-> last.raised]]
    /\ calls' = calls + 1
    /\ UNCHANGED <<recording, sorting, metadata, nwb_file_path, storage>>

WriteSorting ==
    /\ calls < MaxCalls
    /\ \E order_ft \in Orders(all_features(sorting)), order_w \in Orders(all_features(sorting)) :
          \E r \in {write_sorting(nwbfile, sorting, metadata, kwargs, nwb_file_path, storage,
                                 order_ft, order_w)} :
          /\ nwbfile' = r.nwb
          /\ metadata' = r.metadata
          /\ kwargs' = r.kwargs
          /\ storage' = r.storage
          /\ last' = [op |-> "write_sorting", pre |-> nwbfile, sto |-> storage, kw |-> kwargs,
                       raised |-> r.raised,
                       prev |-> [op |-> last.op, raised |-> last.raised]]
    /\ calls' = calls + 1
    /\ UNCHANGED <<recording, sorting, nwb_file_path>>

WriteRecording ==
    /\ calls < MaxCalls
    /\ \E order_in \in Orders(property_names(recording)), low_memory \in BOOLEAN, ub \in {"wrap", "saturate"} :
          \E r \in {write_recording(nwbfile, recording, metadata, kwargs, nwb_file_path, storage,
                                   order_in, low_memory, ub)} :
          /\ nwbfile' = r.nwb
          /\ metadata' = r.metadata
          /\ kwargs' = r.kwargs
          /\ storage' = r.storage
          /\ last' = [op |-> "write_recording", pre |-> nwbfile, sto |-> storage, kw |-> kwargs,
                       raised |-> r.raised,
                       prev |-> [op |-> last.op, raised |-> last.raised],
                       md |-> metadata]
    /\ calls' = calls + 1
    /\ UNCHANGED <<recording, sorting, nwb_file_path>>

AddDevices ==
    /\ calls < MaxCalls
    /\ \E r \in {add_devices(nwbfile, metadata)} :
          /\ nwbfile' = r.nwb
          /\ metadata' = r.metadata
          /\ last' = [op |-> "add_devices", pre |-> nwbfile, sto |-> storage, kw |-> kwargs,
                       raised |-> r.raised,
                       prev |-> [op |-> last.op, raised |-> last.raised]]
    /\ calls' = calls + 1
    /\ UNCHANGED <<recording, sorting, kwargs, nwb_file_path, storage>>

AddEpochsCall ==
    /\ calls < MaxCalls
    /\ \E r \in {add_epochs(nwbfile, recording)} :
          /\ nwbfile' = r.nwb
          /\ last' = [op |-> "add_epochs", pre |-> nwbfile, sto |-> storage, kw |-> kwargs,
                       raised |-> r.raised,
                       prev |-> [op |-> last.op, raised |-> last.raised]]
    /\ calls' = calls + 1
    /\ UNCHANGED <<recording, sorting, kwargs, metadata, nwb_file_path, storage>>

AddElectrodeGroups ==
    /\ calls < MaxCalls
    /\ \E r \in {add_electrode_groups(nwbfile)} :
          /\ nwbfile' = r.nwb
          /\ last' = [op |-> "add_electrode_groups", pre |-> nwbfile, sto |-> storage, kw |-> kwargs,
                       raised |-> r.raised,
                       prev |-> [op |-> last.op, raised |-> last.raised]]
    /\ calls' = calls + 1
    /\ UNCHANGED <<recording, sorting, kwargs, metadata, nwb_file_path, storage>>

\* another writer is constructed on the container and the extractor of the
\* last one, with its own keyword arguments and metadata
ConstructOnContainer ==
    /\ calls < MaxCalls
    /\ last.op # "__init__"
    /\ \E a \in LocationArgs :
          \E w \in {__init__(None, nwbfile, a.metadata, a.kwargs)} :
          /\ w.raised = "none"
          /\ nwbfile' = w.nwbfile
          /\ nwb_file_path' = w.nwb_file_path
          /\ metadata' = w.metadata
          /\ kwargs' = w.kwargs
          /\ last' = [op |-> "__init__", pre |-> nwbfile, sto |-> storage, kw |-> w.kwargs,
                       raised |-> w.raised,
                       prev |-> [op |-> last.op, raised |-> last.raised]]
    /\ UNCHANGED <<recording, sorting, storage, calls>>

\* lines 90-94: write_to_nwb writes the object the writer was constructed on
WriteToNwb ==
    \/ recording # NoRecording /\ WriteRecording
    \/ recording = NoRecording /\ sorting # NoSorting /\ WriteSorting

\* a writer is constructed for the same object with or without a path and
\* with or without the container; when the constructor raises, there is no
\* new writer
Construct ==
    /\ calls < MaxCalls
    /\ last.op # "__init__"
    /\ \E path \in {None, Some("out.nwb")}, nwb \in {nwbfile, NoneNwb} :
          \E w \in {__init__(path, nwb, metadata, kwargs)} :
          /\ IF w.raised = "none"
             THEN nwbfile' = w.nwbfile /\ nwb_file_path' = w.nwb_file_path
             ELSE UNCHANGED <<nwbfile, nwb_file_path>>
          /\ last' = [op |-> "__init__", pre |-> nwbfile, sto |-> storage, kw |-> kwargs,
                       raised |-> w.raised,
                       prev |-> [op |-> last.op, raised |-> last.raised],
                       args |-> [nwb_file_path |-> path, nwbfile |-> nwb]]
    /\ UNCHANGED <<recording, sorting, metadata, kwargs, storage, calls>>

\* lines 635-675 of add_electrical_series for a recording of any length: the
\* iterator over the data is made (buffer_mb has passed the assertion of
\* line 516)
MakeDataChunks ==
    /\ calls < MaxCalls
    /\ kwargs.buffer_mb > 10
    /\ \E low_memory \in BOOLEAN :
          last' = [op |-> "DataChunkIterator", pre |-> nwbfile, sto |-> storage, kw |-> kwargs,
                   raised |-> "none",
                   prev |-> [op |-> last.op, raised |-> last.raised],
                   chunks |-> DataChunks(recording, kwargs, low_memory)]
    /\ calls' = calls + 1
    /\ UNCHANGED <<nwbfile, recording, sorting, kwargs, metadata, nwb_file_path, storage>>

(***************************************************************************)
(* Electrodes: add_electrodes on a container handed to the writer.         *)
(***************************************************************************)
InitElectrodes ==
    /\ nwbfile \in ElectrodeContainers
    /\ \E inp \in ElectrodeInputs :
          recording = inp.recording /\ kwargs = inp.kwargs /\ metadata = inp.metadata
    /\ sorting = NoSorting
    /\ nwb_file_path = None
    /\ storage = NoStorage
    /\ last = NoCall
    /\ calls = 0

NextElectrodes == AddElectrodes

SpecElectrodes == InitElectrodes /\ [][NextElectrodes]_vars

(***************************************************************************)
(* Series: add_electrical_series, alone or after add_electrodes.           *)
(***************************************************************************)
InitSeries ==
    /\ \E inp \in SeriesInputs :
          /\ nwbfile = inp.nwbfile
          /\ recording = inp.recording
          /\ kwargs = inp.kwargs
          /\ metadata = inp.metadata
    /\ sorting = NoSorting
    /\ nwb_file_path = None
    /\ storage = NoStorage
    /\ last = NoCall
    /\ calls = 0

NextSeries == AddElectricalSeries \/ AddElectrodes

SpecSeries == InitSeries /\ [][NextSeries]_vars

(***************************************************************************)
(* Units: add_units and write_sorting of a sorting writer.                 *)
(***************************************************************************)
InitUnits ==
    /\ \E inp \in UnitsInputs :
          /\ nwbfile = inp.target.nwbfile
          /\ nwb_file_path = inp.target.nwb_file_path
          /\ storage = inp.target.storage
          /\ sorting = inp.sorting
          /\ kwargs = inp.kwargs
    /\ recording = NoRecording
    /\ metadata = MetadataNone
    /\ last = NoCall
    /\ calls = 0

NextUnits == AddUnits \/ WriteSorting

SpecUnits == InitUnits /\ [][NextUnits]_vars

(***************************************************************************)
(* Write: write_recording of a recording writer, with the steps            *)
(* add_devices, add_electrode_groups and add_epochs also called on their   *)
(* own.                                                                    *)
(***************************************************************************)
InitWrite ==
    /\ \E inp \in WriteInputs :
          /\ nwbfile = inp.target.nwbfile
          /\ nwb_file_path = inp.target.nwb_file_path
          /\ storage = inp.target.storage
          /\ recording = inp.recording
          /\ metadata = inp.metadata
          /\ kwargs = inp.kwargs
    /\ sorting = NoSorting
    /\ last = NoCall
    /\ calls = 0

NextWrite == WriteRecording \/ AddDevices \/ AddElectrodeGroups \/ AddEpochsCall

SpecWrite == InitWrite /\ [][NextWrite]_vars

(***************************************************************************)
(* Locations: add_electrical_series of several writers on one container.   *)
(***************************************************************************)
InitLocations ==
    /\ nwbfile \in LocationContainers
    /\ recording = PlainRecording(ChannelIds(0, MaxChannels),
                                  [ch \in Range(ChannelIds(0, MaxChannels)) |-> <<>>], FALSE)
    /\ \E a \in LocationArgs : kwargs = a.kwargs /\ metadata = a.metadata
    /\ sorting = NoSorting
    /\ nwb_file_path = None
    /\ storage = NoStorage
    /\ last = NoCall
    /\ calls = 0

NextLocations == AddElectricalSeries \/ ConstructOnContainer

SpecLocations == InitLocations /\ [][NextLocations]_vars

(***************************************************************************)
(* Path: write_to_nwb of recording and sorting writers constructed on a    *)
(* container, a path, both or neither.                                     *)
(***************************************************************************)
InitPath ==
    /\ \E inp \in PathInputs :
          /\ nwbfile = inp.target.nwbfile
          /\ nwb_file_path = inp.target.nwb_file_path
          /\ storage = inp.target.storage
          /\ recording = inp.recording
          /\ sorting = inp.sorting
          /\ metadata = inp.metadata
          /\ kwargs = inp.kwargs
    /\ last = NoCall
    /\ calls = 0

NextPath == WriteToNwb \/ Construct

SpecPath == InitPath /\ [][NextPath]_vars

(***************************************************************************)
(* Chunks: the iteration over the data of long recordings.                 *)
(***************************************************************************)
InitChunks ==
    /\ recording \in LongRecordings
    /\ kwargs \in ChunkKwargs
    /\ nwbfile = ReadyNwb(0)
    /\ metadata = MetadataNone
    /\ sorting = NoSorting
    /\ nwb_file_path = None
    /\ storage = NoStorage
    /\ last = NoCall
    /\ calls = 0

NextChunks == MakeDataChunks

SpecChunks == InitChunks /\ [][NextChunks]_vars

(***************************************************************************)
(* Properties.                                                             *)
(***************************************************************************)
\* the last call was add_electrodes and it returned
AddElectrodesReturned == last.op = "add_electrodes" /\ last.raised = "none"

\* the Electrodes table before the call held none of the extractor's ids
NoIdInTableBefore ==
    \A i \in DOMAIN recording.channel_ids : ~InSeq(recording.channel_ids[i], last.pre.electrodes.ids)

\* C1: starting from a container whose Electrodes table is absent or holds
\* none of the extractor's channel ids, after add_electrodes returns every
\* channel id is the id of exactly one row and every column is as long as
\* the table has rows.
C1_EveryChannelOneRow ==
    (AddElectrodesReturned /\ NoIdInTableBefore) =>
        /\ \A i \in DOMAIN recording.channel_ids :
              Cardinality({k \in DOMAIN nwbfile.electrodes.ids :
                              nwbfile.electrodes.ids[k] = recording.channel_ids[i]}) = 1
        /\ \A c \in DOMAIN nwbfile.electrodes.cols :
              Len(nwbfile.electrodes.cols[c]) = Len(nwbfile.electrodes.ids)

\* a table that had rows was extended by rows and by a new column
C1_Witness ==
    /\ AddElectrodesReturned /\ NoIdInTableBefore
    /\ last.pre.electrodes.present
    /\ Len(last.pre.electrodes.ids) > 0
    /\ Len(nwbfile.electrodes.ids) = Len(last.pre.electrodes.ids) + Len(recording.channel_ids)
    /\ DOMAIN nwbfile.electrodes.cols # DOMAIN last.pre.electrodes.cols

\* the Electrodes table before the call held one of the extractor's ids
SomeIdInTableBefore ==
    /\ last.pre.electrodes.present
    /\ \E i \in DOMAIN recording.channel_ids : InSeq(recording.channel_ids[i], last.pre.electrodes.ids)

\* C2: if the Electrodes table already contains at least one of the
\* extractor's channel ids, add_electrodes returns and leaves the Electrodes
\* table and the electrode groups as they were, also when other ids of the
\* extractor are not in the table.
C2_GuardLeavesTableUnchanged ==
    (last.op = "add_electrodes" /\ SomeIdInTableBefore) =>
        /\ last.raised = "none"
        /\ nwbfile.electrodes = last.pre.electrodes
        /\ nwbfile.electrode_groups = last.pre.electrode_groups

\* the call was made with one id in the table and another id not in it
C2_Witness ==
    /\ last.op = "add_electrodes" /\ SomeIdInTableBefore
    /\ \E i \in DOMAIN recording.channel_ids : ~InSeq(recording.channel_ids[i], last.pre.electrodes.ids)
    /\ \E i \in DOMAIN recording.channel_ids : recording.props[recording.channel_ids[i]] # <<>>

\* the types of the values the channels hold for a property
TypesHeld(rec, p) ==
    { rec.props[ch][p].ty : ch \in {c \in Range(rec.channel_ids) : p \in DOMAIN rec.props[c]} }

\* the first channel, in channel-id order, that has the property
FirstHolder(rec, p) ==
    rec.channel_ids[CHOOSE i \in DOMAIN rec.channel_ids :
        /\ p \in DOMAIN rec.props[rec.channel_ids[i]]
        /\ \A k \in 1..(i - 1) : p \notin DOMAIN rec.props[rec.channel_ids[k]]]

\* C6: a property whose values differ in type between channels is written
\* as no column, and a column written for a property holds only values of
\* the type of the first channel that has the property.
C6_ColumnTypeFixedByFirst ==
    (AddElectrodesReturned /\ ~last.pre.electrodes.present) =>
        \A p \in property_names(recording) \ (exclude_names(kwargs) \cup {"brain_area", "group_name"}) :
            /\ Cardinality(TypesHeld(recording, p)) > 1 => p \notin DOMAIN nwbfile.electrodes.cols
            /\ p \in DOMAIN nwbfile.electrodes.cols =>
                  \A k \in DOMAIN nwbfile.electrodes.cols[p] :
                      nwbfile.electrodes.cols[p][k].ty = recording.props[FirstHolder(recording, p)][p].ty

\* a name is a channel property that the reconciler does not skip
NonSkippedProperty(rec, kw, m) ==
    \E p \in property_names(rec) \ exclude_names(kw) :
        prop_name_new(p) = m /\ recording.props[FirstHolder(rec, p)][p].ty \in Range(PropertyTypes)

\* the call got as far as the check of the metadata's column names
ReachedMetadataCheck ==
    /\ last.op = "add_electrodes"
    /\ ~SomeIdInTableBefore
    /\ last.pre.electrode_groups # {}
    /\ ~InSeq("group", metadata.Electrodes.names)

\* C7: if the metadata names a column that is no non-skipped channel
\* property, add_electrodes raises the configuration error and the
\* Electrodes table gains no row and no column.
C7_UnknownMetadataColumnRaises ==
    (/\ ReachedMetadataCheck
     /\ \E i \in DOMAIN metadata.Electrodes.names :
           ~NonSkippedProperty(recording, kwargs, metadata.Electrodes.names[i])) =>
        /\ last.raised = "ValueError"
        /\ nwbfile.electrodes = last.pre.electrodes
\* the call of add_electrical_series got as far as the check of the
\* offset/gain ratios: the table held every channel, the arguments were
\* valid and the name of the series was free
ReachedCoercionCheck ==
    /\ last.op = "add_electrical_series"
    /\ ~last.pre.none
    /\ \A i \in DOMAIN recording.channel_ids : InSeq(recording.channel_ids[i], last.pre.electrodes.ids)
    /\ kwargs.buffer_mb > 10
    /\ kwargs.compression \in {None, Some("gzip"), Some("lzf")}
    /\ kwargs.compression_opts = NoneInt
    /\ kwargs.write_as = "raw"
    /\ ~kwargs.es_key.given
    /\ "ElectricalSeries_raw" \notin DOMAIN last.pre.acquisition

SomeRatioNotInteger ==
    \E i \in DOMAIN recording.channel_ids :
        ~CoercionIsInteger(recording.offsets[recording.channel_ids[i]],
                           recording.gains[recording.channel_ids[i]])

\* C4: add_electrical_series raises if and only if offset/gain is not an
\* integer for some channel and write_scaled is not True; with
\* write_scaled=True the call adds the series whatever the ratios are.
C4_RefusesOnlyWhenUnscaled ==
    ReachedCoercionCheck =>
        /\ (last.raised # "none") <=> (SomeRatioNotInteger /\ ~kwargs.write_scaled)
        /\ kwargs.write_scaled => "ElectricalSeries_raw" \in DOMAIN nwbfile.acquisition

UniformGainZeroOffset ==
    /\ \A i \in DOMAIN recording.channel_ids :
          /\ QEq(recording.gains[recording.channel_ids[i]], recording.gains[recording.channel_ids[1]])
          /\ recording.offsets[recording.channel_ids[i]].n = 0

\* C5: for a recording of uniform gain g and offset 0 written with
\* write_scaled=False, the stored conversion is g (x 1e-6) and the stored
\* sample at [frame, channel] is the raw sample of that channel and frame.
C5_RoundTripRecoversRaw ==
    (/\ ReachedCoercionCheck
     /\ last.raised = "none"
     /\ UniformGainZeroOffset
     /\ ~kwargs.write_scaled)
    =>
        LET es == nwbfile.acquisition["ElectricalSeries_raw"] IN
        /\ QEq(es.conversion, recording.gains[recording.channel_ids[1]])
        /\ \A f \in 1..recording.num_frames : \A i \in DOMAIN recording.channel_ids :
              QEq(es.data[f][i], Q(recording.traces[recording.channel_ids[i]][f], 1))

\* C8: if the Units table of the container already has rows, add_units
\* leaves the Units table exactly as it was.
C8_PopulatedUnitsUntouched ==
    (last.op = "add_units" /\ Len(last.pre.units.ids) > 0) => nwbfile.units = last.pre.units

\* add_units has run on a populated Units table with units (and properties)
\* it would otherwise have written
C8_Witness ==
    /\ last.op = "add_units"
    /\ last.raised = "none"
    /\ Len(last.pre.units.ids) > 0
    /\ sorting.sampling_frequency.given
    /\ all_properties(sorting) # {}

\* the container the call worked on: the one handed over, or the one
\* loaded from (or instantiated for) the target path
ContainerOfCall ==
    IF last.pre.none /\ storage.opened > last.sto.opened THEN Loaded(last.sto, storage.mode)
    ELSE last.pre

\* C9: with a sampling frequency of None, add_units and write_sorting raise
\* and the Units table of the container is as it was before the call.
C9_UnknownFrequencyRaisesFirst ==
    (last.op \in {"add_units", "write_sorting"} /\ ~sorting.sampling_frequency.given) =>
        /\ last.raised # "none"
        /\ nwbfile.units = ContainerOfCall.units

\* a call on a sorting with units and no sampling frequency has raised the
\* ValueError, on a container whose Units table was still to be written
C9_Witness ==
    /\ last.op \in {"add_units", "write_sorting"}
    /\ ~sorting.sampling_frequency.given
    /\ last.raised = "ValueError"
    /\ all_properties(sorting) # {}
    /\ ~ContainerOfCall.units.present

\* the units that define the property
Holders(pr) == { u \in Range(sorting.unit_ids) : pr \in DOMAIN sorting.props[u] }

\* two units define the property by lists or arrays of different shape
DiffersInShape(pr) ==
    \E u1, u2 \in Holders(pr) :
        /\ sorting.props[u1][pr].ty \in {"list", "array"}
        /\ sorting.props[u2][pr].ty \in {"list", "array"}
        /\ sorting.props[u1][pr].shape # sorting.props[u2][pr].shape

\* all units that define the property give it the same shape, and none a dict
SameShape(pr) ==
    /\ \A u \in Holders(pr) : sorting.props[u][pr].ty # "dict"
    /\ \A u1, u2 \in Holders(pr) :
          /\ sorting.props[u1][pr].shape = sorting.props[u2][pr].shape
          /\ (sorting.props[u1][pr].ty \in {"list", "array"}) = (sorting.props[u2][pr].ty \in {"list", "array"})

\* add_units has written the Units table and returned
UnitsWritten ==
    /\ last.op = "add_units"
    /\ last.raised = "none"
    /\ ~last.pre.none
    /\ ~last.pre.units.present

\* C10: after add_units has written the table, a list or array property
\* whose shape differs between two units is not a column, and every property
\* of one shape that is no dict and not in skip_properties is a column.
C10_VariableShapeSkipped ==
    UnitsWritten =>
        \A pr \in all_properties(sorting) :
            /\ DiffersInShape(pr) => pr \notin DOMAIN nwbfile.units.cols
            /\ (SameShape(pr) /\ pr \notin last.kw.skip_properties.v) => pr \in DOMAIN nwbfile.units.cols

\* the table was written for units of which one has a list of length 3 and
\* another a list of length 5 under one name, and a property of one shape
C10_Witness ==
    /\ UnitsWritten
    /\ \E pr \in all_properties(sorting) : DiffersInShape(pr) /\ pr \notin DOMAIN nwbfile.units.cols
    /\ \E pr \in all_properties(sorting) : SameShape(pr) /\ pr \in DOMAIN nwbfile.units.cols

\* write_recording was called on a fresh target: an empty container, or a
\* path at which there is no file
FreshTarget ==
    \/ last.pre = EmptyNwb /\ nwb_file_path = None
    \/ last.pre.none /\ nwb_file_path # None /\ ~last.sto.is_file

\* C3: write_recording of the scenario extractor (4 channels, groups
\* 0,0,1,1, gains 1.0, offsets 0, rate 1000.0) with write_as="raw" on a fresh
\* target succeeds and leaves exactly the series ElectricalSeries_raw in
\* acquisition, two electrode groups and four electrode rows.
C3_ScenarioWritesOneRawSeries ==
    (/\ last.op = "write_recording"
     /\ recording = ScenarioRecording
     /\ kwargs.write_as = "raw"
     /\ kwargs.write_electrical_series
     /\ FreshTarget)
    =>
        /\ last.raised = "none"
        /\ DOMAIN nwbfile.acquisition = {"ElectricalSeries_raw"}
        /\ Cardinality(nwbfile.electrode_groups) = 2
        /\ Len(nwbfile.electrodes.ids) = 4

\* the number of spikes of a unit
SpikeCount(u) == Len(sorting.spike_trains[u])

\* the index entry before that of the k-th unit
IndexBefore(idx, k) == IF k = 1 THEN 0 ELSE idx[k - 1]

\* the columns ft and ft_index are a ragged encoding of the units' values:
\* the index is the running sum of the spike counts, it ends at the number
\* of flattened values, and the k-th slice holds the k-th unit's values
RaggedEncoding(ft) ==
    LET vals == nwbfile.units.cols[ft]
        idx == nwbfile.units.cols[ft \o "_index"]
    IN /\ Len(idx) = Len(sorting.unit_ids)
       /\ \A k \in DOMAIN idx : idx[k] = IndexBefore(idx, k) + SpikeCount(sorting.unit_ids[k])
       /\ idx[Len(idx)] = Len(vals)
       /\ \A k \in DOMAIN idx :
             /\ ft \in DOMAIN sorting.features[sorting.unit_ids[k]]
             /\ SubSeq(vals, IndexBefore(idx, k) + 1, idx[k])
                    = [j \in 1..sorting.features[sorting.unit_ids[k]][ft].n |->
                          [unit |-> sorting.unit_ids[k], k |-> j]]

\* some unit has a number of values of the feature that is not its number
\* of spikes
CountDiffers(ft) ==
    \E u \in Range(sorting.unit_ids) :
        ft \in DOMAIN sorting.features[u] /\ sorting.features[u][ft].n # SpikeCount(u)

\* C11: after add_units has written the table, every feature column is a
\* ragged encoding of the units' values (the index the running sum of the
\* spike counts, ending at the number of values, slice k the values of unit
\* k), and a feature of which some unit has more or fewer values than spikes
\* is not a column.
C11_FeatureColumnsAreRagged ==
    UnitsWritten =>
        \A ft \in all_features(sorting) \ IdxsNames :
            /\ (ft \in DOMAIN nwbfile.units.cols) => (ft \o "_index" \in DOMAIN nwbfile.units.cols
                                                      /\ RaggedEncoding(ft))
            /\ CountDiffers(ft) => ft \notin DOMAIN nwbfile.units.cols

\* the device names the metadata asks for (the default name for an entry
\* without one, and for a metadata without a device list)
NamedDevices == { DeviceName(DevicesOf(metadata)[i]) : i \in DOMAIN DevicesOf(metadata) }

\* C12: add_devices on a container returns with the devices it found plus
\* one device for each distinct name of the metadata, and a second call
\* right after it, with the metadata unchanged, returns and leaves the
\* devices as the first call left them.
C12_AddDevicesIdempotent ==
    /\ (last.op = "add_devices" /\ ~last.pre.none) =>
          /\ last.raised = "none"
          /\ nwbfile.devices = last.pre.devices \cup NamedDevices
    /\ (last.op = "add_devices" /\ last.prev.op = "add_devices" /\ last.prev.raised = "none") =>
          /\ last.raised = "none"
          /\ nwbfile.devices = last.pre.devices

\* add_devices was called twice in a row with a metadata that lists a name
\* twice and an entry without a name, and the container holds the two devices
C12_Witness ==
    /\ last.op = "add_devices"
    /\ last.prev.op = "add_devices"
    /\ last.raised = "none"
    /\ DevicesOf(metadata) = <<"probe", "", "probe">>
    /\ nwbfile.devices = {"probe", "Device"}

\* C13: after add_devices returns, the container has at least one device
\* and a device for every name of the metadata's device list.
C13_AtLeastOneDevice ==
    (last.op = "add_devices" /\ last.raised = "none") =>
        /\ nwbfile.devices # {}
        /\ NamedDevices \subseteq nwbfile.devices

\* the names of the channel groups of the extractor
ChannelGroupNames == { StrInt(recording.groups[ch]) : ch \in DOMAIN recording.groups }

\* C14: add_electrode_groups on the container of a recording writer returns
\* with one electrode group per channel group of the extractor and with a
\* device in the container, and a second call right after it adds no group.
C14_OneGroupPerChannelGroup ==
    /\ (last.op = "add_electrode_groups" /\ ~last.pre.none) =>
          /\ last.raised = "none"
          /\ ChannelGroupNames \subseteq nwbfile.electrode_groups
          /\ nwbfile.electrode_groups \ last.pre.electrode_groups \subseteq ChannelGroupNames
          /\ nwbfile.devices # {}
    /\ (last.op = "add_electrode_groups" /\ last.prev.op = "add_electrode_groups"
            /\ last.prev.raised = "none") =>
          nwbfile.electrode_groups = last.pre.electrode_groups

\* add_electrodes has returned after adding rows to a table that had rows
TableExtended ==
    /\ AddElectrodesReturned /\ NoIdInTableBefore
    /\ last.pre.electrodes.present
    /\ Len(last.pre.electrodes.ids) > 0
    /\ Len(nwbfile.electrodes.ids) > Len(last.pre.electrodes.ids)

\* the columns the extractor gives values for: its properties under the
\* names of their columns, and the group of each channel
ColumnsOfExtractor ==
    { prop_name_new(p) : p \in property_names(recording) } \cup property_names(recording)
        \cup {"group", "group_name"}

\* the default of a column that was in the table before the call: the one
\* of the writer's defaults, or else that of the type of the column's values
DefaultOfColumn(c) ==
    IF c \in DOMAIN ElectrodeDefaults THEN ElectrodeDefaults[c]
    ELSE channel_property_defaults(last.pre.electrodes.cols[c][1].ty)

\* C15: when add_electrodes has extended a table that had rows, the rows
\* that were there hold in every column that was there the values they
\* held; every new column holds for them the default of the type of the
\* first value the extractor has for it; and every new row holds the
\* column's default in every old column the extractor has no values for.
C15_ExtensionKeepsAndPads ==
    TableExtended =>
        LET old == last.pre.electrodes
            new == nwbfile.electrodes
        IN /\ SubSeq(new.ids, 1, Len(old.ids)) = old.ids
           /\ \A c \in DOMAIN old.cols :
                 /\ c \in DOMAIN new.cols
                 /\ SubSeq(new.cols[c], 1, Len(old.ids)) = old.cols[c]
           /\ \A c \in DOMAIN new.cols \ DOMAIN old.cols :
                 /\ prop_name_old(c) \in property_names(recording)
                 /\ \A k \in DOMAIN old.ids :
                       new.cols[c][k] = channel_property_defaults(
                           recording.props[FirstHolder(recording, prop_name_old(c))][prop_name_old(c)].ty)
           /\ \A c \in DOMAIN old.cols \ ColumnsOfExtractor :
                 \A k \in (Len(old.ids) + 1)..Len(new.ids) : new.cols[c][k] = DefaultOfColumn(c)

\* a table with a column of strings was extended by rows of channels
\* without that property and by a new column
C15_Witness ==
    /\ TableExtended
    /\ "q" \in DOMAIN last.pre.electrodes.cols \ ColumnsOfExtractor
    /\ \E k \in DOMAIN nwbfile.electrodes.ids :
          k > Len(last.pre.electrodes.ids) /\ nwbfile.electrodes.cols["q"][k] = Text("")
    /\ DOMAIN nwbfile.electrodes.cols # DOMAIN last.pre.electrodes.cols

\* NaN for a real number, the empty string for a string, the empty list for
\* a list
CanonicalDefault(ty) ==
    CASE ty = "real" -> np_nan
      [] ty = "str" -> Text("")
      [] ty = "list" -> List("", 0)

\* the first unit, in unit-id order, that has the property
FirstUnitHolder(srt, pr) ==
    srt.unit_ids[CHOOSE i \in DOMAIN srt.unit_ids :
        /\ pr \in DOMAIN srt.props[srt.unit_ids[i]]
        /\ \A k \in 1..(i - 1) : pr \notin DOMAIN srt.props[srt.unit_ids[k]]]

\* the rows add_electrodes has added hold, for a channel without a property
\* that is a column, the canonical default of the type of the property
ElectrodeColumnsPadded ==
    (AddElectrodesReturned /\ NoIdInTableBefore) =>
        \A p \in property_names(recording) \ exclude_names(kwargs) :
            (/\ prop_name_new(p) \in DOMAIN nwbfile.electrodes.cols
             /\ recording.props[FirstHolder(recording, p)][p].ty \in {"real", "str", "list"}) =>
                \A j \in DOMAIN recording.channel_ids :
                    p \notin DOMAIN recording.props[recording.channel_ids[j]] =>
                        nwbfile.electrodes.cols[prop_name_new(p)][Len(last.pre.electrodes.ids) + j]
                            = CanonicalDefault(recording.props[FirstHolder(recording, p)][p].ty)

\* the rows add_units has written hold, for a unit without a property that
\* is a column, the canonical default of the type of the property
UnitColumnsPadded ==
    UnitsWritten =>
        \A pr \in all_properties(sorting) :
            (/\ pr \in DOMAIN nwbfile.units.cols
             /\ sorting.props[FirstUnitHolder(sorting, pr)][pr].ty \in {"real", "str", "list"}) =>
                \A k \in DOMAIN sorting.unit_ids :
                    pr \notin DOMAIN sorting.props[sorting.unit_ids[k]] =>
                        nwbfile.units.cols[pr][k]
                            = CanonicalDefault(sorting.props[FirstUnitHolder(sorting, pr)][pr].ty)

\* C16: in every column written for a property, an id without the property
\* holds the canonical default of the column's type (NaN, the empty string
\* or the empty list), also an id before the first id that has the
\* property; for the channels in add_electrodes and the units in add_units.
C16_MissingValuesGetTypeDefault == ElectrodeColumnsPadded /\ UnitColumnsPadded

\* the series of a location of the container, none when its processing
\* module or data interface does not exist
SeriesAt(nwb, write_as) ==
    IF write_as = "raw" THEN nwb.acquisition
    ELSE IF "ecephys" \in DOMAIN nwb.processing /\ InterfaceOf(write_as) \in DOMAIN nwb.processing["ecephys"]
    THEN nwb.processing["ecephys"][InterfaceOf(write_as)]
    ELSE <<>>

Locations == {"raw", "processed", "lfp"}

\* add_electrical_series was called with valid arguments on a container
\* whose Electrodes table holds every channel of the extractor, and the
\* name of the series is resolved
SeriesCallNamed ==
    /\ last.op = "add_electrical_series"
    /\ ~last.pre.none
    /\ \A i \in DOMAIN recording.channel_ids : InSeq(recording.channel_ids[i], last.pre.electrodes.ids)
    /\ kwargs.buffer_mb > 10
    /\ kwargs.compression \in {None, Some("gzip"), Some("lzf")}
    /\ kwargs.compression_opts = NoneInt
    /\ kwargs.write_as \in Locations
    /\ SeriesName(metadata, kwargs) # ""
    /\ ~SomeRatioNotInteger

\* C17: a call of add_electrical_series whose series name is already in the
\* location of its write_as raises and leaves the series of every location
\* as they were; a call whose name is free in its location returns, whatever
\* the other locations hold, and adds this one name to its location only.
C17_OneSeriesPerNameAndLocation ==
    SeriesCallNamed =>
        LET name == SeriesName(metadata, kwargs)
            before == SeriesAt(last.pre, kwargs.write_as)
        IN IF name \in DOMAIN before
           THEN /\ last.raised # "none"
                /\ \A loc \in Locations : SeriesAt(nwbfile, loc) = SeriesAt(last.pre, loc)
           ELSE /\ last.raised = "none"
                /\ DOMAIN SeriesAt(nwbfile, kwargs.write_as) = DOMAIN before \cup {name}
                /\ \A n \in DOMAIN before : SeriesAt(nwbfile, kwargs.write_as)[n] = before[n]
                /\ \A loc \in Locations \ {kwargs.write_as} :
                      SeriesAt(nwbfile, loc) = SeriesAt(last.pre, loc)

\* a processed series was added under a name that a raw series of the
\* container has, after a call for that name in its own location
C17_Witness ==
    /\ SeriesCallNamed
    /\ last.raised = "none"
    /\ kwargs.write_as = "processed"
    /\ SeriesName(metadata, kwargs) \in DOMAIN nwbfile.acquisition
    /\ SeriesName(metadata, kwargs) \in DOMAIN SeriesAt(nwbfile, "processed")

(***************************************************************************)
(* The order of the steps and the storage handle of write_recording and    *)
(* write_sorting.                                                          *)
(***************************************************************************)
\* what the last call has appended to the storage trace
CallTrace == SubSeq(storage.trace, Len(last.sto.trace) + 1, Len(storage.trace))

StepsOf(t) == SelectSeq(t, LAMBDA e : e \notin {"open", "write", "close"})

IsPrefix(a, b) == Len(a) <= Len(b) /\ a = SubSeq(b, 1, Len(a))

RecordingOrder ==
    <<"add_devices", "add_electrode_groups", "add_electrodes", "add_electrical_series", "add_epochs">>

\* the steps a call that returns has run
StepsToRun ==
    IF last.op = "write_sorting" THEN <<"add_units">>
    ELSE IF last.kw.write_electrical_series THEN RecordingOrder
    ELSE SubSeq(RecordingOrder, 1, 3)

WriteCall == last.op \in {"write_recording", "write_sorting"}

\* the last call was made by a writer with a path and no container
PathCall == WriteCall /\ nwb_file_path.given /\ last.pre.none

\* the last call was made by a writer with a path and a container
BothCall == WriteCall /\ nwb_file_path.given /\ ~last.pre.none

\* the steps of a path-mode call run in the order of the code between the
\* opening and the closing of the handle, the container is written once
\* after the last step of a call that returns, and a call in which a step
\* raised runs no later step and writes nothing
StepsThenWriteDiscipline ==
    PathCall =>
        /\ IsPrefix(StepsOf(CallTrace), StepsToRun)
        /\ StepsOf(CallTrace) # <<>>
        /\ IF last.raised = "none"
           THEN /\ CallTrace = <<"open">> \o StepsToRun \o <<"write", "close">>
                /\ storage.writes = last.sto.writes + 1
                /\ storage.file = nwbfile
           ELSE /\ CallTrace = <<"open">> \o StepsOf(CallTrace) \o <<"close">>
                /\ storage.writes = last.sto.writes

\* write_recording of the reference extractor (4 channels in two groups,
\* gains 1, offsets 0) with default arguments on a path where no file is
ReferenceCall ==
    /\ PathCall
    /\ last.op = "write_recording"
    /\ recording = ScenarioRecording
    /\ last.kw = DefaultKwargs
    /\ ~last.sto.is_file

\* C18: a write_recording or write_sorting call of a writer on a path runs
\* add_devices, add_electrode_groups, add_electrodes, add_electrical_series
\* and add_epochs in this order (write_sorting: add_units) and then writes the
\* container to storage once, after the last step; nothing is written
\* before the steps have finished or when a step raises. For the reference
\* extractor, in which nothing gives a step a reason to raise, all five steps
\* run and the container is written.
C18_StepsThenOneWrite ==
    /\ StepsThenWriteDiscipline
    /\ ReferenceCall =>
           /\ CallTrace = <<"open">> \o RecordingOrder \o <<"write", "close">>
           /\ storage.writes = 1

RECURSIVE OpenAt(_, _)
\* the number of handles open after the first k events of the trace
OpenAt(t, k) ==
    IF k = 0 THEN 0
    ELSE OpenAt(t, k - 1) + (IF t[k] = "open" THEN 1 ELSE IF t[k] = "close" THEN 0 - 1 ELSE 0)

\* C19: after every write_recording and write_sorting call, returned or
\* raised, no storage handle is open, and at no point of a call more than one
\* handle is open.
C19_HandleClosed ==
    /\ storage.opened = storage.closed
    /\ OpenAt(storage.trace, Len(storage.trace)) = 0
    /\ \A k \in 1..Len(storage.trace) : OpenAt(storage.trace, k) \in {0, 1}

\* a path-mode call raised inside the with block and the handle it had
\* opened is closed
C19_Witness ==
    /\ PathCall
    /\ last.raised # "none"
    /\ storage.opened = last.sto.opened + 1
    /\ storage.closed = storage.opened

\* C20: a writer given neither a path nor a container is not constructed
\* (AssertionError); write_recording and write_sorting of a writer holding
\* both raise AssertionError with the container as it was and the storage
\* untouched.
C20_NeitherOrBothRefused ==
    /\ (last.op = "__init__" /\ ~last.args.nwb_file_path.given /\ last.args.nwbfile.none) =>
           /\ last.raised = "AssertionError"
           /\ nwbfile = last.pre
    /\ (last.op = "__init__" /\ (last.args.nwb_file_path.given \/ ~last.args.nwbfile.none)) =>
           last.raised = "none"
    /\ BothCall =>
           /\ last.raised = "AssertionError"
           /\ nwbfile = last.pre
           /\ storage = last.sto

\* a writer holding both targets was refused by write_recording
C20_Witness ==
    /\ BothCall
    /\ last.op = "write_recording"
    /\ last.raised = "AssertionError"
    /\ last.prev.op = "__init__"

(***************************************************************************)
(* Refusals of add_electrical_series and what they leave behind.           *)
(***************************************************************************)
\* add_electrical_series raised at the check of offset/gain (lines 614-619):
\* the container had its groups, so nothing before the check raises
\* NotImplementedError
RefusedForRatio ==
    /\ last.op = "add_electrical_series"
    /\ last.raised = "NotImplementedError"
    /\ SomeRatioNotInteger
    /\ last.pre.electrode_groups # {}

\* C21: an add_electrical_series call that is refused because offset/gain is
\* not an integer for some channel leaves the container as it was: no
\* electrode row, no processing module and no data interface has been added.
C21_RefusedBeforeAnyWrite ==
    RefusedForRatio =>
        /\ nwbfile.electrodes = last.pre.electrodes
        /\ nwbfile.processing = last.pre.processing
        /\ nwbfile = last.pre

(***************************************************************************)
(* The metadata write_recording works with.                                *)
(***************************************************************************)
\* write_recording of a recording with attached metadata got past its
\* assertions, with a user metadata that is a dict
WroteWithAttachedMetadata ==
    /\ last.op = "write_recording"
    /\ recording.has_nwb_metadata
    /\ ~BothTargets(nwb_file_path, last.pre)
    /\ ~last.md.none

\* C22: for a recording with attached nwb_metadata, the metadata the steps of
\* write_recording work with is the deep merge of the attached metadata with
\* the user's: the user's entries win and the attached entries the user did
\* not give are kept, so that a device named only by the attached metadata
\* is created by add_devices.
C22_EffectiveMetadataIsMerge ==
    WroteWithAttachedMetadata =>
        /\ metadata = LocalMetadata(recording, last.md)
        /\ ~last.md.Device.present => "attached" \in nwbfile.devices

(***************************************************************************)
(* The compression arguments of add_electrical_series.                     *)
(***************************************************************************)
\* add_electrical_series was called with a valid write_as on a container
\* that holds the channels and not yet the series, for integer offset/gain:
\* nothing but the compression arguments can make the call raise
CompressionDecides ==
    /\ last.op = "add_electrical_series"
    /\ ~last.pre.none
    /\ \A i \in DOMAIN recording.channel_ids : InSeq(recording.channel_ids[i], last.pre.electrodes.ids)
    /\ kwargs.buffer_mb > 10
    /\ kwargs.write_as \in Locations
    /\ SeriesName(metadata, kwargs) # ""
    /\ SeriesName(metadata, kwargs) \notin DOMAIN SeriesAt(last.pre, kwargs.write_as)
    /\ ~SomeRatioNotInteger

\* the series the last call has added
AddedSeries == SeriesAt(nwbfile, kwargs.write_as)[SeriesName(metadata, kwargs)]

\* C23: with compression "gzip", a compression_opts outside 0..9 makes
\* add_electrical_series raise without adding a series, a missing
\* compression_opts is taken as 4 and one in 0..9 is kept; with compression
\* "lzf" a compression_opts is dropped and the series is written without it,
\* the call not raising.
C23_CompressionOptions ==
    CompressionDecides =>
        /\ (kwargs.compression = Some("gzip") /\ kwargs.compression_opts.given
                /\ kwargs.compression_opts.v \notin 0..9) =>
              /\ last.raised = "AssertionError"
              /\ \A loc \in Locations : SeriesAt(nwbfile, loc) = SeriesAt(last.pre, loc)
        /\ (kwargs.compression = Some("gzip") /\ ~kwargs.compression_opts.given) =>
              /\ last.raised = "none"
              /\ AddedSeries.compression = Some("gzip")
              /\ AddedSeries.compression_opts = [given |-> TRUE, v |-> 4]
        /\ (kwargs.compression = Some("gzip") /\ kwargs.compression_opts.given
                /\ kwargs.compression_opts.v \in 0..9) =>
              /\ last.raised = "none"
              /\ AddedSeries.compression_opts = kwargs.compression_opts
        /\ (kwargs.compression = Some("lzf") /\ kwargs.compression_opts.given) =>
              /\ last.raised = "none"
              /\ AddedSeries.compression = Some("lzf")
              /\ AddedSeries.compression_opts = NoneInt

\* a series was written with "lzf" by a call that passed compression_opts
C23_Witness ==
    /\ CompressionDecides
    /\ kwargs.compression = Some("lzf")
    /\ kwargs.compression_opts.given
    /\ last.raised = "none"
    /\ AddedSeries.compression_opts = NoneInt

(***************************************************************************)
(* Groups named by the channels, and what a failed add_electrodes leaves.  *)
(***************************************************************************)
\* add_electrodes came to the rows of a recording in which every channel has
\* the string property group_name and the first channel names a group the
\* container, which has groups, does not hold
MissingGroupNamed ==
    /\ last.op = "add_electrodes"
    /\ ~last.pre.none
    /\ NoIdInTableBefore
    /\ last.pre.electrode_groups # {}
    /\ \A ch \in Range(recording.channel_ids) :
          /\ DOMAIN recording.props[ch] = {"group_name"}
          /\ recording.props[ch].group_name.ty = "str"
    /\ recording.props[recording.channel_ids[1]].group_name.v \notin last.pre.electrode_groups

\* C24: when a channel's group_name names a group the container does not
\* hold, add_electrodes creates the group, adds the channel's row with that
\* group and returns.
C24_MissingGroupIsCreated ==
    MissingGroupNamed =>
        /\ last.raised = "none"
        /\ recording.props[recording.channel_ids[1]].group_name.v \in nwbfile.electrode_groups
        /\ InSeq(recording.channel_ids[1], nwbfile.electrodes.ids)

\* C25: an add_electrodes call that raises leaves the Electrodes table as it
\* was before the call: no row and no column of the call stays behind.
C25_FailedCallLeavesTable ==
    (last.op = "add_electrodes" /\ last.raised # "none") =>
        nwbfile.electrodes = last.pre.electrodes

(***************************************************************************)
(* The mode a path-mode write opens the storage in.                        *)
(***************************************************************************)
\* the target of the last call was a file and overwrite was not requested
AppendsToFile == last.sto.is_file /\ ~last.kw.overwrite

\* the container a path-mode call has to start from: the one read from the
\* file, or a new one
StartOfSteps == IF AppendsToFile THEN last.sto.file ELSE EmptyNwb

\* the container after the last call is what the steps of the call make of
\* the container nwb
StepsStartedFrom(nwb) ==
    IF last.op = "write_sorting"
    THEN \E order_ft \in Orders(all_features(sorting)), order_w \in Orders(all_features(sorting)) :
            nwbfile = add_units(nwb, sorting, last.kw, order_ft, order_w).nwb
    ELSE \E order_in \in Orders(property_names(recording)), low_memory \in BOOLEAN, ub \in {"wrap", "saturate"} :
            nwbfile = RecordingSteps(nwb, recording, MetadataForRecording(recording, last.md), last.kw,
                                     order_in, low_memory, ub).nwb

\* C26: a path-mode write_recording or write_sorting opens the storage in
\* mode "r+" and works on the container read from the file exactly when the
\* path is a file and overwrite is not requested; otherwise it opens in mode
\* "w" and works on a newly instantiated container.
C26_AppendOnlyToExistingFile ==
    PathCall =>
        /\ storage.mode = (IF AppendsToFile THEN "r+" ELSE "w")
        /\ StepsStartedFrom(StartOfSteps)
        /\ AppendsToFile => last.sto.file.devices \subseteq nwbfile.devices
        /\ (~AppendsToFile /\ last.op = "write_sorting") => nwbfile.devices = {} /\ ~nwbfile.electrodes.present

\* write_sorting with overwrite=True on a path whose file holds units: the
\* storage was opened in mode "w" and the written container holds the units
\* of the extractor, not those of the file
C26_Witness ==
    /\ PathCall
    /\ last.op = "write_sorting"
    /\ last.sto.is_file /\ last.kw.overwrite
    /\ last.sto.file.units.present
    /\ last.raised = "none"
    /\ storage.mode = "w"
    /\ storage.file = nwbfile
    /\ nwbfile.units # last.sto.file.units

(***************************************************************************)
(* The size of one iteration step.                                         *)
(***************************************************************************)
\* the number of samples that fit into buffer_mb
SampleBudget == (last.kw.buffer_mb * 1000000) \div itemsize(recording.dtype)

\* C27: in chunked mode, on the memory-mapped path and on the per-channel
\* generator path, one iteration step hands over no more samples than fit
\* into buffer_mb, whatever the number of frames of the recording.
C27_StepWithinBuffer ==
    (last.op = "DataChunkIterator" /\ last.chunks.mode \in {"memmap", "generator"}) =>
        last.chunks.step <= SampleBudget

(***************************************************************************)
(* A writer on a path writes once.                                         *)
(***************************************************************************)
\* the last two calls were write calls of one writer that has a path
SecondWriteOnPath ==
    /\ WriteCall
    /\ last.prev.op \in {"write_recording", "write_sorting"}
    /\ nwb_file_path.given

\* C28: a path-mode write_recording or write_sorting call leaves the
\* container it loaded or instantiated on the writer, also when a step of the
\* call raised; the next write call of the writer raises the assertion that
\* not both a path and a container are given, without opening the storage,
\* writing to it or changing the container.
C28_PathWriterWritesOnce ==
    /\ PathCall => ~nwbfile.none
    /\ SecondWriteOnPath =>
          /\ last.raised = "AssertionError"
          /\ nwbfile = last.pre
          /\ storage = last.sto

\* the second call of a writer on a path was refused after a first call in
\* which a step had raised
C28_Witness ==
    /\ SecondWriteOnPath
    /\ last.prev.raised \notin {"none", "AssertionError"}
    /\ last.raised = "AssertionError"
    /\ storage.opened = 1
    /\ storage.writes = 0

(***************************************************************************)
(* add_epochs called twice.                                                *)
(***************************************************************************)
\* C29: a second add_epochs call for the same extractor, after a first one
\* that returned, adds no row to the epochs table and leaves start_time and
\* stop_time of every row as the first call left them.
C29_AddEpochsIdempotent ==
    (/\ last.op = "add_epochs" /\ last.raised = "none"
     /\ last.prev.op = "add_epochs" /\ last.prev.raised = "none")
    =>
        /\ Len(nwbfile.epochs) = Len(last.pre.epochs)
        /\ nwbfile.epochs = last.pre.epochs

(***************************************************************************)
(* Unsigned samples on the per-channel generator path.                     *)
(***************************************************************************)
\* C30: with write_scaled=False, the samples of an unsigned source that go
\* through the per-channel generator are stored in the signed type of the
\* same width as raw + offset/gain exactly, without wrap-around, whenever
\* offset/gain is an integer; with offset 0 they are stored unchanged.
C30_UnsignedStoredExactly ==
    (/\ ReachedCoercionCheck
     /\ last.raised = "none"
     /\ ~kwargs.write_scaled
     /\ recording.dtype.unsigned
     /\ nwbfile.acquisition["ElectricalSeries_raw"].mode = "generator")
    =>
        \A f \in 1..recording.num_frames : \A i \in DOMAIN recording.channel_ids :
            QEq(nwbfile.acquisition["ElectricalSeries_raw"].data[f][i],
                Q(recording.traces[recording.channel_ids[i]][f]
                      + Coercion(recording.offsets[recording.channel_ids[i]],
                                 recording.gains[recording.channel_ids[i]]), 1))

====
